---- MODULE Spec2Model ----
(***************************************************************************)
(* Connectivity core of tabularis: the SSH tunnel registry and connection  *)
(* resolver (commands.rs, ssh_tunnel.rs) and the cancellable query         *)
(* execution with its cancellation registry (commands.rs).                 *)
(*                                                                         *)
(* Option<T> is modelled as a sequence: <<>> is None, <<v>> is Some(v).    *)
(* A Rust string is a TLA+ string read as its UTF-8 bytes: position i of   *)
(* the TLA+ string (from 1) is byte i-1 of the Rust string.                *)
(***************************************************************************)
EXTENDS Integers, Sequences, FiniteSets, TLC

\* ---------------------------------------------------------------- bounds
NumResolves == 3
NumQueries == 2
NumCommands == 1
MaxRows == 1
NumPorts == 2
MaxPage == 2
MaxLimit == 2
MaxTotal == 3
MaxStream == 2
MaxTime == 11
MaxRelays == 2
MaxStops == 2
NumRegistry == 1
NumFaults == 2
NumPaths == 2
\* commands that resolve parameters sharing one tunnel key
NumCacheCalls == 3

\* ------------------------------------------------------ program constants
DEFAULT_MYSQL_PORT == 3306
DEFAULT_POSTGRES_PORT == 5432
DEFAULT_RESOLVE_SSH_PORT == 22
SSH_TUNNEL_TIMEOUT_SECS == 10
SSH_AUTH_TIMEOUT_SECS == 30

\* ---------------------------------------------------------------- Option
None == <<>>
Some(v) == <<v>>
IsSome(o) == o # <<>>
UnwrapOr(o, d) == IF o = <<>> THEN d ELSE o[1]

\* --------------------------------------------------------- pure functions
Whitespace == {" ", "\t", "\n", "\r"}

\* the byte at position i of s
Byte(s, i) == SubSeq(s, i, i)

\* str::trim_start: s without its leading whitespace
trim_start(s) ==
    LET n == Len(s)
        lead == {i \in 1..n : \A j \in 1..i : Byte(s, j) \in Whitespace}
    IN SubSeq(s, Cardinality(lead) + 1, n)

\* str::trim_end: s without its trailing whitespace
trim_end(s) ==
    LET n == Len(s)
        trail == {i \in 1..n : \A j \in i..n : Byte(s, j) \in Whitespace}
    IN SubSeq(s, 1, n - Cardinality(trail))

\* str::trim
trim(s) == trim_start(trim_end(s))

\* ssh_tunnel.rs is_empty_or_whitespace: s.map(|p| p.trim().is_empty()).unwrap_or(true)
is_empty_or_whitespace(s) ==
    IF s = None THEN TRUE
    ELSE Len(trim(s[1])) = 0

\* variant: only an absent password selects the system SSH
ShouldUseSystemSshOnlyNone(ssh_password) == ssh_password = None

\* ssh_tunnel.rs should_use_system_ssh
should_use_system_ssh(ssh_password) == is_empty_or_whitespace(ssh_password)

\* variant: the key leaves the SSH port out
BuildTunnelKeyNoSshPort(ssh_user, ssh_host, ssh_port, remote_host, remote_port) ==
    ssh_user \o "@" \o ssh_host \o ":" \o remote_host \o "->" \o ToString(remote_port)

\* ssh_tunnel.rs build_tunnel_key: format!("{}@{}:{}:{}->{}", ...)
build_tunnel_key(ssh_user, ssh_host, ssh_port, remote_host, remote_port) ==
    ssh_user \o "@" \o ssh_host \o ":" \o ToString(ssh_port) \o ":"
        \o remote_host \o "->" \o ToString(remote_port)

build_tunnel_map_key(ssh_user, ssh_host, ssh_port, remote_host, remote_port) ==
    build_tunnel_key(ssh_user, ssh_host, ssh_port, remote_host, remote_port)

\* ------------------------------------------------------- strings and u32
\* 'ı' (U+0131, UTF-8 bytes C4 B1) is written as the two bytes "{" and "}";
\* char::to_uppercase maps it to the one-byte "I".  Every other byte used
\* here is ASCII.
ContinuationBytes == {"}"}
LowerLetters == "abcdefghijklmnopqrstuvwxyz"
UpperLetters == "ABCDEFGHIJKLMNOPQRSTUVWXYZ"

\* char::to_uppercase of an ASCII byte
UpperByte(c) ==
    LET k == {i \in 1..Len(LowerLetters) : Byte(LowerLetters, i) = c}
    IN IF k = {} THEN c ELSE Byte(UpperLetters, CHOOSE i \in k : TRUE)

RECURSIVE UpperFrom(_, _)
UpperFrom(s, i) ==
    IF i > Len(s) THEN ""
    ELSE IF Byte(s, i) = "{"
         THEN "I" \o UpperFrom(s, i + 2)
         ELSE UpperByte(Byte(s, i)) \o UpperFrom(s, i + 1)

\* str::to_uppercase: char by char, so the result may be shorter than s
to_uppercase(s) == UpperFrom(s, 1)

\* str::starts_with
starts_with(s, prefix) ==
    Len(s) >= Len(prefix) /\ SubSeq(s, 1, Len(prefix)) = prefix

\* str::rfind: the byte offset (from 0) of the last occurrence, if any
rfind(s, pat) ==
    LET found == {i \in 0..(Len(s) - Len(pat)) : SubSeq(s, i + 1, i + Len(pat)) = pat}
    IN IF found = {} THEN None
       ELSE Some(CHOOSE i \in found : \A j \in found : j <= i)

\* str::is_char_boundary for a byte offset (from 0)
is_char_boundary(s, idx) ==
    \/ idx = 0
    \/ idx = Len(s)
    \/ idx < Len(s) /\ Byte(s, idx + 1) \notin ContinuationBytes

\* a value, or the panic of the expression that should have produced it
Value(v) == [panic |-> FALSE, val |-> v]
Panic == [panic |-> TRUE, val |-> ""]

\* &s[pos..] and &s[..pos]: slicing panics off a char boundary
SliceFrom(s, pos) ==
    IF is_char_boundary(s, pos) THEN Value(SubSeq(s, pos + 1, Len(s))) ELSE Panic
SliceTo(s, pos) ==
    IF is_char_boundary(s, pos) THEN Value(SubSeq(s, 1, pos)) ELSE Panic

\* A u32 is a pair <<hi, lo>> of 16-bit halves, its value hi * 65536 + lo,
\* so that the whole range of the type has a representation.
Wide(n) == <<n \div 65536, n % 65536>>

\* the 32-bit product of two 16-bit numbers
Mul16(x, y) ==
    LET yh == y \div 256
        yl == y % 256
        t == x * yh + (x * yl) \div 256
        r == (x * yl) % 256
    IN <<t \div 256, (t % 256) * 256 + r>>

\* a - 1 in u32: the wrapped value and whether the subtraction overflowed
WideSub1(a) ==
    IF a[2] > 0 THEN [val |-> <<a[1], a[2] - 1>>, overflow |-> FALSE]
    ELSE IF a[1] > 0 THEN [val |-> <<a[1] - 1, 65535>>, overflow |-> FALSE]
    ELSE [val |-> <<65535, 65535>>, overflow |-> TRUE]

\* a * b in u32: the wrapped value and whether the multiplication overflowed
WideMul(a, b) ==
    LET p0 == Mul16(a[2], b[2])
        p1 == Mul16(a[1], b[2])
        p2 == Mul16(a[2], b[1])
        p3 == Mul16(a[1], b[1])
        mid == p0[1] + p1[2] + p2[2]
    IN [val |-> <<mid % 65536, p0[2]>>,
        overflow |-> p3 # <<0, 0>> \/ p1[1] # 0 \/ p2[1] # 0 \/ mid >= 65536]

\* Display for u32: the decimal digits
WideToString(w) ==
    LET s == w[1] * 5536 + w[2]
        high == w[1] * 6 + s \div 10000
        low == s % 10000
        pad == IF low < 10 THEN "000" ELSE IF low < 100 THEN "00"
               ELSE IF low < 1000 THEN "0" ELSE ""
    IN IF high = 0 THEN ToString(low) ELSE ToString(high) \o pad \o ToString(low)

\* common.rs calculate_offset, and the same expression in the drivers:
\* (page - 1) * page_size.  With overflow checks (debug builds) an overflow
\* panics, without them (release builds) the result wraps.
calculate_offset(page, page_size, overflow_checks) ==
    LET pm == WideSub1(Wide(page))
        prod == WideMul(pm.val, Wide(page_size))
    IN IF overflow_checks /\ (pm.overflow \/ prod.overflow) THEN Panic
       ELSE [panic |-> FALSE, val |-> prod.val,
             wrapped |-> pm.overflow \/ prod.overflow]

\* common.rs is_select_query, and the same expression in the drivers
is_select_query(query) == starts_with(to_uppercase(trim_start(query)), "SELECT")

\* mysql.rs / sqlite.rs extract_order_by
extract_order_by(query) ==
    LET query_upper == to_uppercase(query)
        pos == rfind(query_upper, "ORDER BY")
    IN IF pos # None
       THEN LET tail == SliceFrom(query, pos[1])
            IN IF tail.panic THEN Panic ELSE Value(trim(tail.val))
       ELSE Value("")

\* mysql.rs / sqlite.rs remove_order_by
remove_order_by(query) ==
    LET query_upper == to_uppercase(query)
        pos == rfind(query_upper, "ORDER BY")
    IN IF pos # None
       THEN LET head == SliceTo(query, pos[1])
            IN IF head.panic THEN Panic ELSE Value(trim(head.val))
       ELSE Value(query)

\* ------------------------------------------------------------ data model
ConnectionParams(driver, host, port, en, sid, sh, sp, su, spw, skf) ==
    [driver |-> driver, host |-> host, port |-> port,
     username |-> Some("root"), password |-> None, database |-> "testdb",
     ssh_enabled |-> en, ssh_connection_id |-> sid,
     ssh_host |-> sh, ssh_port |-> sp, ssh_user |-> su,
     ssh_password |-> spw, ssh_key_file |-> skf,
     ssh_key_passphrase |-> None, save_in_keychain |-> None]

Secret == "secret"
Blank == "   "
KeyFile == "/home/user/.ssh/id_rsa"

\* no SSH at all (ssh_enabled absent)
PlainParams ==
    ConnectionParams("mysql", Some("localhost"), Some(3306), None, None,
                     None, None, None, None, None)
\* SSH fields filled in but ssh_enabled = Some(false)
DisabledParams ==
    ConnectionParams("mysql", Some("db.internal"), Some(3306), Some(FALSE), None,
                     Some("jump.server"), Some(22), Some("admin"), None, Some(KeyFile))
\* key admin@jump.server:22:db.internal->3306, external-process backend
SshParamsA ==
    ConnectionParams("mysql", Some("db.internal"), Some(3306), Some(TRUE), None,
                     Some("jump.server"), Some(22), Some("admin"), None, Some(KeyFile))
\* same key as SshParamsA (ssh_port defaulted), native backend
SshParamsA2 ==
    ConnectionParams("mysql", Some("db.internal"), Some(3306), Some(TRUE), None,
                     Some("jump.server"), None, Some("admin"), Some(Secret), None)
\* another key: host and port of the database absent, blank password
SshParamsB ==
    ConnectionParams("postgres", None, None, Some(TRUE), None,
                     Some("jump.server"), Some(2222), Some("admin"), Some(Blank), None)
\* same key as SshParamsA, the key file protected by a passphrase
SshParamsA3 == [SshParamsA EXCEPT !.ssh_key_passphrase = Some("passphrase")]
NoHostParams == [SshParamsA EXCEPT !.ssh_host = None]
NoUserParams == [SshParamsA EXCEPT !.ssh_user = None]
NoHostNoUserParams == [SshParamsA EXCEPT !.ssh_host = None, !.ssh_user = None]

\* the parameters a command hands to resolve_connection_params directly
ResolveInputs ==
    {PlainParams, DisabledParams, SshParamsA, SshParamsA2, SshParamsB,
     NoHostParams, NoUserParams, NoHostNoUserParams}

\* connections.json: saved connection id -> params
ProfileParams ==
    ConnectionParams("mysql", Some("db.internal"), Some(3306), Some(TRUE), Some("s1"),
                     None, None, None, None, None)
\* a saved connection whose driver tag is none of the three dialects
OtherDriverParams ==
    ConnectionParams("mongodb", Some("localhost"), Some(27017), None, None,
                     None, None, None, None, None)
SavedConnections ==
    ("c1" :> ProfileParams) @@ ("c2" :> PlainParams) @@ ("c3" :> OtherDriverParams)

\* ssh_connections.json as loaded by get_ssh_connections
SshConnections ==
    ("s1" :> [host |-> "jump.server", port |-> 22, user |-> "admin",
              password |-> None, key_file |-> Some(KeyFile), key_passphrase |-> None])

\* the logical connection ids a caller may pass to execute_query and
\* cancel_query; "c9" is not a saved connection
ConnectionIds == {"c1", "c2", "c3", "c9"}
\* those whose saved connection (if any) needs no SSH tunnel
DirectIds ==
    {id \in ConnectionIds :
        id \in DOMAIN SavedConnections =>
            ~UnwrapOr(SavedConnections[id].ssh_enabled, FALSE)}

\* --------------------------------------------------------------- results
Ok(params, rows) == [ok |-> TRUE, err |-> "", params |-> params, rows |-> rows]
Err(msg) == [ok |-> FALSE, err |-> msg, params |-> None, rows |-> 0]

\* expand_ssh_connection_params: merge the referenced SSH profile
expand_ssh_connection_params(params) ==
    IF UnwrapOr(params.ssh_enabled, FALSE) /\ IsSome(params.ssh_connection_id)
    THEN LET ssh_id == params.ssh_connection_id[1] IN
         IF ssh_id \notin DOMAIN SshConnections
         THEN Err("SSH connection with ID " \o ssh_id \o " not found")
         ELSE LET ssh_conn == SshConnections[ssh_id] IN
              Ok(Some([params EXCEPT !.ssh_host = Some(ssh_conn.host),
                                     !.ssh_port = Some(ssh_conn.port),
                                     !.ssh_user = Some(ssh_conn.user),
                                     !.ssh_password = ssh_conn.password,
                                     !.ssh_key_file = ssh_conn.key_file,
                                     !.ssh_key_passphrase = ssh_conn.key_passphrase]), 0)
    ELSE Ok(Some(params), 0)

\* an early return of resolve_connection_params with result res
EarlyReturn(res) ==
    [stage |-> "return", res |-> res, map_key |-> "", args |-> None]

\* variant: the registry key also tells the credentials apart
ResolvePlanKeyedByCredentials(params) ==
    LET ssh_host == params.ssh_host[1]
        ssh_port == UnwrapOr(params.ssh_port, DEFAULT_RESOLVE_SSH_PORT)
        ssh_user == params.ssh_user[1]
        remote_host == UnwrapOr(params.host, "localhost")
        remote_port == UnwrapOr(params.port, DEFAULT_MYSQL_PORT)
    IN [stage |-> "lookup", res |-> Err(""),
        map_key |-> build_tunnel_map_key(ssh_user, ssh_host, ssh_port,
                                         remote_host, remote_port)
                    \o "#" \o UnwrapOr(params.ssh_password, "")
                    \o "#" \o UnwrapOr(params.ssh_key_file, ""),
        args |-> Some([ssh_host |-> ssh_host, ssh_port |-> ssh_port,
                       ssh_user |-> ssh_user,
                       ssh_password |-> params.ssh_password,
                       ssh_key_file |-> params.ssh_key_file,
                       ssh_key_passphrase |-> params.ssh_key_passphrase,
                       remote_host |-> remote_host,
                       remote_port |-> remote_port])]

\* resolve_connection_params, lines 97-103 once host and user are known to be
\* present: the defaults, the tunnel key and the arguments a later
\* SshTunnel::new would get
ResolvePlan(params) ==
    LET ssh_host == params.ssh_host[1]
        ssh_port == UnwrapOr(params.ssh_port, DEFAULT_RESOLVE_SSH_PORT)
        ssh_user == params.ssh_user[1]
        remote_host == UnwrapOr(params.host, "localhost")
        remote_port == UnwrapOr(params.port, DEFAULT_MYSQL_PORT)
    IN [stage |-> "lookup", res |-> Err(""),
        map_key |-> build_tunnel_map_key(ssh_user, ssh_host, ssh_port,
                                         remote_host, remote_port),
        args |-> Some([ssh_host |-> ssh_host, ssh_port |-> ssh_port,
                       ssh_user |-> ssh_user,
                       ssh_password |-> params.ssh_password,
                       ssh_key_file |-> params.ssh_key_file,
                       ssh_key_passphrase |-> params.ssh_key_passphrase,
                       remote_host |-> remote_host,
                       remote_port |-> remote_port])]

\* variant: an absent ssh_enabled counts as enabled (unwrap_or(true))
ResolvePrologueEnabledByDefault(params) ==
    IF ~UnwrapOr(params.ssh_enabled, TRUE)
    THEN EarlyReturn(Ok(Some(params), 0))
    ELSE IF params.ssh_host = None THEN EarlyReturn(Err("Missing SSH Host"))
    ELSE IF params.ssh_user = None THEN EarlyReturn(Err("Missing SSH User"))
    ELSE ResolvePlan(params)

\* variant: the user is validated before the host
ResolvePrologueUserFirst(params) ==
    IF ~UnwrapOr(params.ssh_enabled, FALSE)
    THEN EarlyReturn(Ok(Some(params), 0))
    ELSE IF params.ssh_user = None THEN EarlyReturn(Err("Missing SSH User"))
    ELSE IF params.ssh_host = None THEN EarlyReturn(Err("Missing SSH Host"))
    ELSE ResolvePlan(params)

\* resolve_connection_params, lines 93-103: the part before the registry is
\* touched.  stage "return" is an early return with result res; stage "lookup"
\* carries the tunnel key and the arguments of SshTunnel::new.
ResolvePrologue(params) ==
    IF ~UnwrapOr(params.ssh_enabled, FALSE)
    THEN EarlyReturn(Ok(Some(params), 0))
    ELSE IF params.ssh_host = None THEN EarlyReturn(Err("Missing SSH Host"))
    ELSE IF params.ssh_user = None THEN EarlyReturn(Err("Missing SSH User"))
    ELSE ResolvePlan(params)

\* lines 109-111 and 139-141: clone with host/port rewritten to the tunnel
RewriteParams(params, local_port) ==
    [params EXCEPT !.host = Some("127.0.0.1"), !.port = Some(local_port)]

\* ----------------------------------------------------------------- state
VARIABLES
    pc,          \* position of each command invocation
    loc,         \* its local variables
    ret,         \* its return value, Some(result) once it has returned
    tunnels,     \* TUNNELS: tunnel key -> index into tunnelObjs
    tunnelObjs,  \* every SshTunnel that SshTunnel::new has returned
    tunnelsLock, \* holder of the TUNNELS mutex, 0 when free
    handles,     \* QueryCancellationState.handles: connection id -> task
    handlesLock, \* holder of the handles mutex, 0 when free
    tasks,       \* every task spawned by execute_query
    newCount,    \* tunnel key -> number of SshTunnel::new invocations for it
    lastCancel,  \* the cancel_query call that led to this state, if one did
    helper,      \* a call of a helper function: its arguments and its result
    drv,         \* a call of a driver's execute_query and its progress
    tun,         \* one SshTunnel: its construction, its threads and its use
    saved        \* the ids of the connections in connections.json

vars == <<pc, loc, ret, tunnels, tunnelObjs, tunnelsLock, handles, handlesLock,
          tasks, newCount, lastCancel, helper, drv, tun, saved>>

\* command invocations; each runs once, in any interleaving with the others
Procs == DOMAIN pc
\* ephemeral ports the OS may hand out for bind("127.0.0.1:0")
Ports == 49152..(49151 + NumPorts)

EmptyMap == [k \in {} |-> 0]
MapInsert(m, k, v) == [x \in DOMAIN m \cup {k} |-> IF x = k THEN v ELSE m[x]]
MapRemove(m, k) == [x \in DOMAIN m \ {k} |-> m[x]]
MapGet(m, k) == IF k \in DOMAIN m THEN m[k] ELSE 0

NoLoc ==
    [cmd |-> "", conn |-> "", driver |-> "", input |-> PlainParams,
     map_key |-> "", args |-> None, hit |-> FALSE, tunnel |-> 0,
     local_port |-> 0, resolved |-> None, task |-> 0, joined |-> None,
     effects |-> {}]

NoCancel == [id |-> "", ok |-> FALSE, err |-> ""]

\* no helper call and no driver call under way
NoHelper == [fn |-> "", args |-> <<>>, out |-> None]
NoTun ==
    [pc |-> "n_none", ssh_password |-> None, ssh_key_file |-> None,
     ret |-> None, elapsed |-> 0,
     child |-> "none", status |-> 0, listening |-> FALSE, stderr_log |-> <<>>,
     observed |-> FALSE, connected |-> FALSE, kills |-> 0,
     th |-> "t_none", chan |-> <<>>, auth_start |-> 0, running |-> FALSE,
     relays |-> <<>>, accepted |-> 0, handle_lock |-> 0, taken |-> FALSE,
     stops |-> <<>>]
NoDrv ==
    [pc |-> "d_none", dialect |-> "", query |-> "", limit |-> None, page |-> 1,
     overflow_checks |-> FALSE, count_q |-> None, total_rows |-> 0,
     pagination |-> None, truncated |-> FALSE, manual_limit |-> None,
     offset |-> None, final_query |-> None, stream |-> 0, fetched |-> 0,
     rows |-> <<>>, ret |-> None]

InitCommon ==
    /\ loc = [p \in DOMAIN pc |-> NoLoc]
    /\ ret = [p \in DOMAIN pc |-> None]
    /\ tunnels = EmptyMap
    /\ tunnelObjs = <<>>
    /\ tunnelsLock = 0
    /\ handles = EmptyMap
    /\ handlesLock = 0
    /\ tasks = <<>>
    /\ newCount = EmptyMap
    /\ lastCancel = NoCancel
    /\ saved = DOMAIN SavedConnections

\* the invocations are numbered in the order in which they start
MayStart(p) == pc[p] = "idle" /\ (IF p = 1 THEN TRUE ELSE pc[p - 1] # "idle")

\* ------------------------------------------------ resolve_connection_params
\* resolve_connection_params returns res to its caller: a command that only
\* resolves is finished; execute_query propagates an error with `?`
\* (commands.rs line 1593) and otherwise spawns its task (lines 1596-1609,
\* tokio::spawn: the task starts running on its own)
ResolveExit(p, l, res) ==
    IF l.cmd = "execute_query" /\ res.ok
    THEN /\ tasks' = Append(tasks, [owner |-> p, conn |-> l.conn,
                                    driver |-> l.driver, state |-> "running",
                                    rows |-> 0, aborted |-> FALSE, out |-> Err("")])
         /\ pc' = [pc EXCEPT ![p] = "e_register"]
         /\ loc' = [loc EXCEPT ![p] = [l EXCEPT !.resolved = res.params,
                                                !.task = Len(tasks) + 1]]
         /\ ret' = ret
    ELSE /\ tasks' = tasks
         /\ pc' = [pc EXCEPT ![p] = "done"]
         /\ loc' = [loc EXCEPT ![p] = [l EXCEPT !.resolved = res.params]]
         /\ ret' = [ret EXCEPT ![p] = Some(res)]

\* lines 92-103, entered with params; then either an early return or the
\* position just before the first lock of TUNNELS
ResolveEnter(p, l, params) ==
    LET pr == ResolvePrologue(params)
        l2 == [l EXCEPT !.input = params, !.map_key = pr.map_key, !.args = pr.args]
    IN IF pr.stage = "return"
       THEN ResolveExit(p, l2, pr.res)
       ELSE /\ pc' = [pc EXCEPT ![p] = "r_lookup"]
            /\ loc' = [loc EXCEPT ![p] = l2]
            /\ UNCHANGED <<ret, tasks>>

\* a command other than execute_query (get_tables, get_columns, ...) calls
\* resolve_connection_params(params)
StartResolve(p, params) ==
    /\ MayStart(p)
    /\ ResolveEnter(p, [NoLoc EXCEPT !.cmd = "resolve"], params)
    /\ lastCancel' = NoCancel
    /\ UNCHANGED <<tunnels, tunnelObjs, tunnelsLock, handles, handlesLock, newCount>>
    /\ UNCHANGED <<helper, drv, tun, saved>>

\* lines 106-108: lock TUNNELS and look the key up
ResolveLookup(p) ==
    /\ pc[p] = "r_lookup"
    /\ tunnelsLock = 0
    /\ tunnelsLock' = p
    /\ LET l == loc[p]
           found == l.map_key \in DOMAIN tunnels
       IN /\ loc' = [loc EXCEPT ![p] =
                        [l EXCEPT !.hit = found,
                                  !.local_port = IF found
                                                 THEN tunnelObjs[tunnels[l.map_key]].local_port
                                                 ELSE 0,
                                  !.effects = @ \cup {"lookup"}]]
          /\ pc' = [pc EXCEPT ![p] = "r_looked"]
    /\ lastCancel' = NoCancel
    /\ UNCHANGED <<ret, tunnels, tunnelObjs, handles, handlesLock, tasks, newCount>>
    /\ UNCHANGED <<helper, drv, tun, saved>>

\* variant: on a miss the guard stays alive until the insert
LockAfterLookupHeld(p, hit) == IF hit THEN 0 ELSE p

\* the holder of TUNNELS once the lookup block (lines 106-114) is left
LockAfterLookup(p, hit) == 0

\* lines 109-114: on a hit return the rewritten clone, on a miss leave the
\* block; either way the guard goes out of scope
ResolveLookupUnlock(p) ==
    /\ pc[p] = "r_looked"
    /\ tunnelsLock = p
    /\ tunnelsLock' = LockAfterLookup(p, loc[p].hit)
    /\ IF loc[p].hit
       THEN ResolveExit(p, loc[p],
                        Ok(Some(RewriteParams(loc[p].input, loc[p].local_port)), 0))
       ELSE /\ pc' = [pc EXCEPT ![p] = "r_new"]
            /\ UNCHANGED <<loc, ret, tasks>>
    /\ lastCancel' = NoCancel
    /\ UNCHANGED <<tunnels, tunnelObjs, handles, handlesLock, newCount>>
    /\ UNCHANGED <<helper, drv, tun, saved>>

\* the errors SshTunnel::new can return after the port was chosen, by backend
\* (ssh_tunnel.rs 121-447)
SystemSshErrors ==
    {"SSH process exited prematurely with status: 255",
     "Timed out waiting for SSH tunnel to establish connection."}
RusshErrors ==
    {"SSH authentication failed (authenticated=false)",
     "Timed out waiting for Russh tunnel to initialize (10s)"}
NewErrors(args) ==
    IF should_use_system_ssh(args.ssh_password)
    THEN SystemSshErrors
    ELSE RusshErrors

\* local ports not held by a tunnel that is still forwarding
FreePorts ==
    Ports \ {tunnelObjs[i].local_port :
                i \in {j \in 1..Len(tunnelObjs) : tunnelObjs[j].live}}

\* ssh_tunnel.rs 78-85: bind("127.0.0.1:0"); the OS hands out a free port
\* (the lowest one here), or the bind fails when none is left
AssignLocalPort ==
    IF FreePorts = {} THEN 0
    ELSE CHOOSE q \in FreePorts : \A r \in FreePorts : q <= r

\* variant: the error is wrapped before it is returned
MapNewErrorWrapped(e) == "SSH Tunnel setup failed: " \o e

\* lines 127-130: .map_err(|e| { eprintln!(...); e })
MapNewError(e) == e

\* lines 117-132: SshTunnel::new runs (blocking); it returns a tunnel
\* forwarding from the assigned local port, or an error
ResolveNew(p) ==
    /\ pc[p] = "r_new"
    /\ LET l == loc[p]
           args == l.args[1]
           port == AssignLocalPort
           l2 == [l EXCEPT !.effects = @ \cup {"new"}]
       IN /\ newCount' = MapInsert(newCount, l.map_key, MapGet(newCount, l.map_key) + 1)
          /\ IF port = 0
             THEN /\ tunnelObjs' = tunnelObjs
                  /\ ResolveExit(p, l2, Err(MapNewError("Failed to find free local port")))
             ELSE \/ /\ tunnelObjs' = Append(tunnelObjs,
                           [key |-> l.map_key, local_port |-> port,
                            backend |-> IF should_use_system_ssh(args.ssh_password)
                                        THEN "SystemSsh" ELSE "Russh",
                            live |-> TRUE, stopped |-> FALSE])
                     /\ loc' = [loc EXCEPT ![p] =
                                   [l2 EXCEPT !.tunnel = Len(tunnelObjs) + 1,
                                              !.local_port = port]]
                     /\ pc' = [pc EXCEPT ![p] = "r_insert"]
                     /\ UNCHANGED <<ret, tasks>>
                  \/ \E e \in NewErrors(args) :
                       /\ tunnelObjs' = tunnelObjs
                       /\ ResolveExit(p, l2, Err(MapNewError(e)))
    /\ lastCancel' = NoCancel
    /\ UNCHANGED <<tunnels, tunnelsLock, handles, handlesLock>>
    /\ UNCHANGED <<helper, drv, tun, saved>>

\* lines 134-136: lock TUNNELS and insert; HashMap::insert replaces (and
\* drops) a tunnel already stored under the key, and SshTunnel has no Drop
\* that would stop it
ResolveInsert(p) ==
    /\ pc[p] = "r_insert"
    /\ tunnelsLock = 0
    /\ tunnelsLock' = p
    /\ tunnels' = MapInsert(tunnels, loc[p].map_key, loc[p].tunnel)
    /\ loc' = [loc EXCEPT ![p].effects = @ \cup {"insert"}]
    /\ pc' = [pc EXCEPT ![p] = "r_inserted"]
    /\ lastCancel' = NoCancel
    /\ UNCHANGED <<ret, tunnelObjs, handles, handlesLock, tasks, newCount>>
    /\ UNCHANGED <<helper, drv, tun, saved>>

\* lines 137-142: the guard is dropped, the rewritten clone is returned
ResolveInsertUnlock(p) ==
    /\ pc[p] = "r_inserted"
    /\ tunnelsLock = p
    /\ tunnelsLock' = 0
    /\ ResolveExit(p, loc[p],
                   Ok(Some(RewriteParams(loc[p].input, loc[p].local_port)), 0))
    /\ lastCancel' = NoCancel
    /\ UNCHANGED <<tunnels, tunnelObjs, handles, handlesLock, newCount>>
    /\ UNCHANGED <<helper, drv, tun, saved>>

\* ------------------------------------------------------------ execute_query
SupportedDrivers == {"mysql", "postgres", "sqlite"}

\* find_connection_by_id: the connections delete_connection has removed
\* from connections.json are no longer found
find_connection_by_id(id) ==
    IF id \in DOMAIN SavedConnections /\ id \in saved
    THEN Ok(Some(SavedConnections[id]), 0)
    ELSE Err("Connection not found")

\* lines 1589-1593: find the saved connection, merge its SSH profile and
\* enter resolve_connection_params; each `?` returns the error as it is
StartExecuteQuery(p, id) ==
    /\ MayStart(p)
    /\ LET saved_conn == find_connection_by_id(id)
           l0 == [NoLoc EXCEPT !.cmd = "execute_query", !.conn = id]
       IN IF ~saved_conn.ok
          THEN ResolveExit(p, l0, saved_conn)
          ELSE LET expanded_params == expand_ssh_connection_params(saved_conn.params[1])
                   l1 == [l0 EXCEPT !.driver = saved_conn.params[1].driver]
               IN IF ~expanded_params.ok
                  THEN ResolveExit(p, l1, expanded_params)
                  ELSE ResolveEnter(p, l1, expanded_params.params[1])
    /\ lastCancel' = NoCancel
    /\ UNCHANGED <<tunnels, tunnelObjs, tunnelsLock, handles, handlesLock, newCount>>
    /\ UNCHANGED <<helper, drv, tun, saved>>

\* variant: an existing handle is kept (entry().or_insert)
HandlesInsertIfAbsent(m, id, t) == IF id \in DOMAIN m THEN m ELSE MapInsert(m, id, t)

\* line 1617: handles.insert(connection_id, abort_handle)
HandlesInsert(m, id, t) == MapInsert(m, id, t)

\* lines 1612-1617: lock the handles and register the abort handle
ExecRegister(p) ==
    /\ pc[p] = "e_register"
    /\ handlesLock = 0
    /\ handlesLock' = p
    /\ handles' = HandlesInsert(handles, loc[p].conn, loc[p].task)
    /\ pc' = [pc EXCEPT ![p] = "e_registered"]
    /\ lastCancel' = NoCancel
    /\ UNCHANGED <<loc, ret, tunnels, tunnelObjs, tunnelsLock, tasks, newCount>>
    /\ UNCHANGED <<helper, drv, tun, saved>>

\* line 1618: the guard is dropped; line 1621 starts awaiting the task
ExecRegisterUnlock(p) ==
    /\ pc[p] = "e_registered"
    /\ handlesLock = p
    /\ handlesLock' = 0
    /\ pc' = [pc EXCEPT ![p] = "e_await"]
    /\ lastCancel' = NoCancel
    /\ UNCHANGED <<loc, ret, tunnels, tunnelObjs, tunnelsLock, handles, tasks,
                   newCount>>
    /\ UNCHANGED <<helper, drv, tun, saved>>

\* the query task fetches one more row of its result stream
TaskFetch(t) ==
    /\ t \in 1..Len(tasks)
    /\ tasks[t].state = "running"
    /\ tasks[t].driver \in SupportedDrivers
    /\ tasks[t].rows < MaxRows
    /\ tasks' = [tasks EXCEPT ![t].rows = @ + 1]
    /\ lastCancel' = NoCancel
    /\ UNCHANGED <<pc, loc, ret, tunnels, tunnelObjs, tunnelsLock, handles,
                   handlesLock, newCount>>
    /\ UNCHANGED <<helper, drv, tun, saved>>

\* what the task body (lines 1597-1608) can end with
TaskOutputs(task) ==
    IF task.driver \in SupportedDrivers
    THEN {Ok(None, task.rows), Err("driver error")}
    ELSE {Err("Unsupported driver")}

\* the task runs to its end and stores its output
TaskFinish(t) ==
    /\ t \in 1..Len(tasks)
    /\ tasks[t].state = "running"
    /\ \E out \in TaskOutputs(tasks[t]) :
          tasks' = [tasks EXCEPT ![t].state = "finished", ![t].out = out]
    /\ lastCancel' = NoCancel
    /\ UNCHANGED <<pc, loc, ret, tunnels, tunnelObjs, tunnelsLock, handles,
                   handlesLock, newCount>>
    /\ UNCHANGED <<helper, drv, tun, saved>>

\* variant: the cleanup leaves the entry in place
HandlesCleanupKeeps(m, id, t) == m

\* line 1627: handles.remove(&connection_id)
HandlesCleanup(m, id, t) == MapRemove(m, id)

\* lines 1621-1627: task.await completes once the task finished (Ok(output))
\* or was cancelled (Err(JoinError)); joined is Some(output) or None.  Then
\* the handles are locked and cleaned up.
ExecCleanup(p) ==
    /\ pc[p] = "e_await"
    /\ tasks[loc[p].task].state # "running"
    /\ handlesLock = 0
    /\ handlesLock' = p
    /\ loc' = [loc EXCEPT ![p].joined =
                  IF tasks[loc[p].task].state = "finished"
                  THEN Some(tasks[loc[p].task].out) ELSE None]
    /\ handles' = HandlesCleanup(handles, loc[p].conn, loc[p].task)
    /\ pc' = [pc EXCEPT ![p] = "e_cleaned"]
    /\ lastCancel' = NoCancel
    /\ UNCHANGED <<ret, tunnels, tunnelObjs, tunnelsLock, tasks, newCount>>
    /\ UNCHANGED <<helper, drv, tun, saved>>

\* variant: a cancelled task yields an empty result
JoinResultEmpty(joined) ==
    IF joined # None THEN joined[1] ELSE Ok(None, 0)

\* lines 1630-1633: Ok(res) => res, Err(_) => Err("Query cancelled")
JoinResult(joined) ==
    IF joined # None THEN joined[1] ELSE Err("Query cancelled")

\* lines 1628-1633: the guard is dropped and the result returned
ExecCleanupUnlock(p) ==
    /\ pc[p] = "e_cleaned"
    /\ handlesLock = p
    /\ handlesLock' = 0
    /\ ret' = [ret EXCEPT ![p] = Some(JoinResult(loc[p].joined))]
    /\ pc' = [pc EXCEPT ![p] = "done"]
    /\ lastCancel' = NoCancel
    /\ UNCHANGED <<loc, tunnels, tunnelObjs, tunnelsLock, handles, tasks, newCount>>
    /\ UNCHANGED <<helper, drv, tun, saved>>

\* ------------------------------------------------------------- cancel_query
\* AbortHandle::abort: a task that is still running is cancelled at its
\* current suspension point, a task that has ended is not affected
Abort(ts, t) ==
    [ts EXCEPT ![t].aborted = TRUE,
               ![t].state = IF @ = "running" THEN "cancelled" ELSE @]

\* variant: the handle is looked up but left in the map (get)
CancelRemoveKeeps(m, id) == m

\* line 1571: handles.remove(&connection_id)
CancelRemove(m, id) == MapRemove(m, id)

\* lines 1565-1577, one critical section from the lock to the return
cancel_query(id) ==
    /\ handlesLock = 0
    /\ IF id \in DOMAIN handles
       THEN /\ handles' = CancelRemove(handles, id)
            /\ tasks' = Abort(tasks, handles[id])
            /\ lastCancel' = [id |-> id, ok |-> TRUE, err |-> ""]
       ELSE /\ lastCancel' = [id |-> id, ok |-> FALSE,
                              err |-> "No running query found"]
            /\ UNCHANGED <<handles, tasks>>
    /\ UNCHANGED <<pc, loc, ret, tunnels, tunnelObjs, tunnelsLock, handlesLock,
                   newCount>>
    /\ UNCHANGED <<helper, drv, tun, saved>>

\* ------------------------------------------- drivers: execute_query
\* the dialects whose driver is in drivers/mysql.rs and drivers/sqlite.rs
Dialects == {"mysql", "sqlite"}

\* statements a caller may pass
Queries ==
    {"SELECT * FROM users",
     "  select * from users order by id",
     "\n\tSELECT id FROM posts",
     "SELECT * FROM t WHERE x=1 ORDER BY y DESC",
     "SELECT * FROM (SELECT * FROM users ORDER BY id) AS u ORDER BY name",
     "SELECT * FROM (SELECT * FROM users ORDER BY id) AS u",
     "SELECT '{}{}' ORDER BY a",
     "SELECT '{}{}{}' ORDER BY a",
     "UPDATE users SET name = 'test'",
     "EXPLAIN SELECT * FROM users",
     "DELETE FROM users"}

\* limit: Option<u32>, page: u32
Limits == {None} \cup {Some(l) : l \in (0..MaxLimit) \cup {65536}}
Pages == (0..MaxPage) \cup {65537}

\* what the engine answers to the COUNT(*) statement: Some(n), or None when
\* the statement fails
CountResults == {None} \cup {Some(n) : n \in 0..MaxTotal}

Pagination(page, page_size, total_rows) ==
    [page |-> page, page_size |-> page_size, total_rows |-> total_rows]
QueryResult(rows, truncated, pagination) ==
    [rows |-> rows, affected_rows |-> 0, truncated |-> truncated,
     pagination |-> pagination]
DrvOk(res) == [ok |-> TRUE, err |-> "", res |-> Some(res)]
DrvErr(msg) == [ok |-> FALSE, err |-> msg, res |-> None]

\* mysql.rs 746, sqlite.rs 443: the statement that counts the rows
CountQuery(dialect, query) ==
    IF dialect = "mysql"
    THEN "SELECT COUNT(*) FROM (" \o query \o ") as count_wrapper"
    ELSE "SELECT COUNT(*) FROM (" \o query \o ")"

\* mysql.rs 764: truncated = total_rows > l as u64; sqlite.rs declares
\* truncated (false) only after the pagination block, line 476
TruncatedByTotal(dialect, total_rows, l) ==
    IF dialect = "mysql" THEN total_rows > l ELSE FALSE

\* mysql.rs 768-783, sqlite.rs 460-471: the wrapped statement, given the
\* results of extract_order_by and remove_order_by
PaginatedQuery(dialect, query, query_without_order, order_by_clause, l, offset) ==
    "SELECT * FROM ("
        \o (IF order_by_clause # "" THEN query_without_order ELSE query)
        \o ")"
        \o (IF dialect = "mysql" THEN " as data_wrapper" ELSE "")
        \o (IF order_by_clause # "" THEN " " \o order_by_clause ELSE "")
        \o " LIMIT " \o WideToString(Wide(l)) \o " OFFSET " \o WideToString(offset)

\* variant: every statement with a limit is paginated
IsPaginatedAnyStatement(query, limit) == limit # None

\* mysql.rs 741: if is_select && limit.is_some()
IsPaginated(query, limit) == is_select_query(query) /\ limit # None

\* the variables a driver call leaves alone
DrvFrame ==
    UNCHANGED <<pc, loc, ret, tunnels, tunnelObjs, tunnelsLock, handles,
                handlesLock, tasks, newCount, lastCancel, helper, tun, saved>>

\* mysql.rs 733-734: the pool or the connection cannot be had
DriverConnectErr ==
    /\ drv.pc = "d_start"
    /\ drv' = [drv EXCEPT !.pc = "d_done", !.ret = Some(DrvErr("pool error"))]
    /\ DrvFrame

\* mysql.rs 736-789, sqlite.rs 436-477, from the test for SELECT to the
\* moment the statement is handed to the engine: the offset, the COUNT(*)
\* round trip (count is the engine's answer), the pagination metadata and
\* the wrapped statement
DriverPrepare(count) ==
    /\ drv.pc = "d_start"
    /\ IF IsPaginated(drv.query, drv.limit)
       THEN LET l == drv.limit[1]
                offset == calculate_offset(drv.page, l, drv.overflow_checks)
                total_rows == IF count # None THEN count[1] ELSE 0
                order_by_clause == extract_order_by(drv.query)
                query_without_order == remove_order_by(drv.query)
                counted == [drv EXCEPT
                               !.offset = Some(offset.val),
                               !.count_q = Some(CountQuery(drv.dialect, drv.query)),
                               !.total_rows = total_rows,
                               !.pagination = Some(Pagination(drv.page, l, total_rows)),
                               !.truncated = TruncatedByTotal(drv.dialect, total_rows, l)]
            IN IF offset.panic
               THEN /\ count = None
                    /\ drv' = [drv EXCEPT !.pc = "d_panicked"]
               ELSE IF order_by_clause.panic
               THEN drv' = [counted EXCEPT !.pc = "d_panicked"]
               ELSE drv' = [counted EXCEPT
                               !.pc = "d_stream",
                               !.manual_limit = None,
                               !.final_query =
                                   Some(PaginatedQuery(drv.dialect, drv.query,
                                                       query_without_order.val,
                                                       order_by_clause.val,
                                                       l, offset.val))]
       ELSE /\ count = None
            /\ drv' = [drv EXCEPT !.pc = "d_stream",
                                  !.final_query = Some(drv.query)]
    /\ DrvFrame

\* variant: the cap is reached only when more rows than the cap are kept
CapReachedAfter(json_rows, manual_limit) ==
    manual_limit # None /\ Len(json_rows) > manual_limit[1]

\* mysql.rs 806-807, sqlite.rs 494-495:
\* if let Some(l) = manual_limit { if json_rows.len() >= l as usize
CapReached(json_rows, manual_limit) ==
    manual_limit # None /\ Len(json_rows) >= manual_limit[1]

\* mysql.rs 798-820: the stream yields its next row (rows are named by their
\* place in the stream, drv.stream is the number of rows the engine has for
\* the statement); with the manual limit already reached the loop breaks and
\* the result is returned as truncated, otherwise the row is kept
DriverRow ==
    /\ drv.pc = "d_stream"
    /\ drv.fetched < drv.stream
    /\ IF CapReached(drv.rows, drv.manual_limit)
       THEN drv' = [drv EXCEPT !.pc = "d_done", !.truncated = TRUE,
                               !.fetched = @ + 1,
                               !.ret = Some(DrvOk(QueryResult(drv.rows, TRUE,
                                                              drv.pagination)))]
       ELSE drv' = [drv EXCEPT !.fetched = @ + 1,
                               !.rows = Append(@, drv.fetched + 1)]
    /\ DrvFrame

\* mysql.rs 821: the stream yields an error
DriverRowErr ==
    /\ drv.pc = "d_stream"
    /\ drv' = [drv EXCEPT !.pc = "d_done", !.ret = Some(DrvErr("engine error"))]
    /\ DrvFrame

\* mysql.rs 825-831: the stream is exhausted
DriverEnd ==
    /\ drv.pc = "d_stream"
    /\ drv.fetched = drv.stream
    /\ drv' = [drv EXCEPT !.pc = "d_done",
                          !.ret = Some(DrvOk(QueryResult(drv.rows, drv.truncated,
                                                         drv.pagination)))]
    /\ DrvFrame

\* ------------------------------------------- drivers: value extraction
\* A cell of a row, as the extractors see it: raw is what try_get_raw(index)
\* gives ("null": Ok and is_null, "value": Ok and not null, "error": Err),
\* col_type is the column's type name, decodes the set of Rust types T for
\* which try_get::<T>(index) is Ok, finite tells whether a decoded float is
\* a finite number (serde_json::Number::from_f64 is None otherwise).
SignedProbes == {"i64", "i32", "i16", "i8"}
UnsignedProbes == {"u64", "u32", "u16", "u8"}
FloatProbes == {"f64", "f32"}
DecimalProbes == {"Decimal"}
DateTimeProbes == {"NaiveDateTime", "DateTime<Utc>", "NaiveDate", "NaiveTime"}
Probes ==
    SignedProbes \cup UnsignedProbes \cup FloatProbes \cup DecimalProbes
        \cup DateTimeProbes \cup {"bool", "String", "Uuid", "Vec<u8>", "Json"}

contains(s, pat) == rfind(s, pat) # None

\* common.rs 23-123: the probes tried first for the column type; the four
\* tests are successive ifs, not alternatives
MysqlTypedChain(col_type) ==
    (IF col_type \in {"DECIMAL", "NEWDECIMAL", "NUMERIC"}
        THEN <<"Decimal", "String">> ELSE <<>>)
    \o (IF col_type \in {"TIMESTAMP", "DATETIME"}
        THEN <<"NaiveDateTime", "DateTime<Utc>", "String", "i64">> ELSE <<>>)
    \o (IF contains(col_type, "BLOB") \/ contains(col_type, "BINARY")
        THEN <<"Vec<u8>", "String">> ELSE <<>>)
    \o (IF contains(col_type, "TEXT")
        THEN <<"String", "Vec<u8>">> ELSE <<>>)

\* variant: the signed integers are probed before the unsigned ones
MysqlGeneralChainSignedFirst ==
    <<"NaiveDateTime", "NaiveDate", "NaiveTime",
      "i64", "i32", "i16", "i8",
      "u64", "u32", "u16", "u8",
      "Decimal", "f64", "f32", "bool", "String", "Uuid", "Vec<u8>">>

\* common.rs 125-204: the probes tried for every column type
MysqlGeneralChain ==
    <<"NaiveDateTime", "NaiveDate", "NaiveTime",
      "u64", "u32", "u16", "u8",
      "i64", "i32", "i16", "i8",
      "Decimal", "f64", "f32", "bool", "String", "Uuid", "Vec<u8>">>

\* common.rs 228-296
PostgresChain ==
    <<"DateTime<Utc>", "NaiveDateTime", "NaiveDate", "NaiveTime",
      "i64", "i32", "i16",
      "Decimal", "f64", "f32", "bool", "String", "Uuid", "Vec<u8>", "Json">>

\* common.rs 312-343
SqliteChain == <<"String", "i64", "i32", "f64", "bool", "Vec<u8>">>

\* the place in chain of the first probe that succeeds; Len(chain) + 1 when
\* none does
RECURSIVE FirstOk(_, _, _)
FirstOk(chain, i, decodes) ==
    IF i > Len(chain) THEN i
    ELSE IF chain[i] \in decodes THEN i
    ELSE FirstOk(chain, i + 1, decodes)

\* the JSON value a successful probe returns
JsonOf(probe, cell) ==
    IF probe \in SignedProbes \cup UnsignedProbes THEN "number"
    ELSE IF probe \in FloatProbes
         THEN (IF cell.finite THEN "number" ELSE "null")
    ELSE IF probe = "bool" THEN "bool"
    ELSE IF probe = "Json" THEN "any"
    ELSE "string"

\* variant: the typed probes run although the value is NULL
IsNullNever(cell) == FALSE

\* common.rs 16-21, 222-226, 306-310: try_get_raw is Ok and is_null()
IsNull(cell) == cell.raw = "null"

\* the NULL test, then the probes of chain one after the other until one
\* succeeds: tried are the probes attempted, by the one that succeeded
\* ("null" for the NULL test, "fallback" when none did)
ExtractWith(chain, cell) ==
    IF IsNull(cell) THEN [json |-> "null", by |-> "null", tried |-> <<>>]
    ELSE LET k == FirstOk(chain, 1, cell.decodes)
         IN IF k > Len(chain)
            THEN [json |-> "null", by |-> "fallback", tried |-> chain]
            ELSE [json |-> JsonOf(chain[k], cell), by |-> chain[k],
                  tried |-> SubSeq(chain, 1, k)]

extract_mysql_value(cell) ==
    ExtractWith(MysqlTypedChain(cell.col_type) \o MysqlGeneralChain, cell)
extract_postgres_value(cell) == ExtractWith(PostgresChain, cell)
extract_sqlite_value(cell) == ExtractWith(SqliteChain, cell)

ExtractDialects == {"mysql", "postgres", "sqlite"}
extract_value(dialect, cell) ==
    IF dialect = "mysql" THEN extract_mysql_value(cell)
    ELSE IF dialect = "postgres" THEN extract_postgres_value(cell)
    ELSE extract_sqlite_value(cell)

\* cells: the column types name one column of every branch of
\* extract_mysql_value and two of none
ColTypes(dialect) ==
    IF dialect = "mysql"
    THEN {"DECIMAL", "TIMESTAMP", "VARBINARY", "BLOB", "TEXT", "BIGINT",
          "BIGINT UNSIGNED"}
    ELSE {"unknown"}
DecodeSets == {{}} \cup {{a, b} : a, b \in Probes}
Cells(dialect) ==
    [raw : {"null", "value", "error"}, col_type : ColTypes(dialect),
     decodes : DecodeSets, finite : BOOLEAN]

\* ------------------------------------------- ssh_tunnel.rs: one SshTunnel
\* SshTunnel::new(ssh_host, .., ssh_password, ssh_key_file, ..) and the life
\* of the tunnel it returns.  Time is counted in seconds since the backend
\* constructor started waiting; the clock stops at MaxTime.
TunFrame ==
    UNCHANGED <<pc, loc, ret, tunnels, tunnelObjs, tunnelsLock, handles,
                handlesLock, tasks, newCount, lastCancel, helper, drv, saved>>

TunOk == [ok |-> TRUE, err |-> ""]
TunErr(msg) == [ok |-> FALSE, err |-> msg]
TunReturn(t, res) == [t EXCEPT !.pc = "returned", !.ret = Some(res)]

\* what the ssh subprocess writes to its stderr, and the statuses it may
\* exit with
ChildStderr == <<"Permission denied (publickey).">>
ExitStatuses == {1, 255}

\* Vec<String>::join("\n")
RECURSIVE JoinLines(_)
JoinLines(lines) ==
    IF lines = <<>> THEN ""
    ELSE IF Len(lines) = 1 THEN lines[1]
    ELSE lines[1] \o "\n" \o JoinLines(Tail(lines))

\* ssh_tunnel.rs 236-239: the error for a subprocess that exited (ExitStatus
\* displays as "exit status: N"; ssh -N writes nothing to stdout)
ExitedMsg(status, stderr_log, stdout_log) ==
    "SSH process exited prematurely with status: exit status: "
        \o ToString(status) \o ".\nStderr: " \o JoinLines(stderr_log)
        \o "\nStdout: " \o JoinLines(stdout_log)
SystemSshTimeoutMsg == "Timed out waiting for SSH tunnel to establish connection."

\* ssh_tunnel.rs 77-100: bind("127.0.0.1:0") may fail; otherwise the port
\* the system chose is read, the listener is dropped at the end of the
\* block (line 84), which frees the port, and the backend is chosen
NewDispatch ==
    /\ tun.pc = "n_start"
    /\ \/ tun' = TunReturn(tun, TunErr("Failed to find free local port"))
       \/ tun' = [tun EXCEPT !.pc = IF should_use_system_ssh(tun.ssh_password)
                                    THEN "s_spawn" ELSE "r_bind"]
    /\ TunFrame

\* another socket of the machine (of any process, a concurrent
\* SshTunnel::new too) is bound to the port number while no listener of
\* this tunnel holds it
OtherBinds ==
    /\ tun.pc \notin {"n_none", "n_start", "returned"}
    /\ ~tun.listening
    /\ ~tun.taken
    /\ tun' = [tun EXCEPT !.taken = TRUE]
    /\ TunFrame

\* ssh_tunnel.rs 167-180: Command::new("ssh").spawn()
SysSpawn ==
    /\ tun.pc = "s_spawn"
    /\ \/ tun' = TunReturn(tun, TunErr("Failed to launch system ssh"))
       \/ tun' = [tun EXCEPT !.pc = "s_loop", !.child = "running"]
    /\ TunFrame

\* ssh_tunnel.rs 227: while start.elapsed() < timeout
SysLoopHead ==
    /\ tun.pc = "s_loop"
    /\ tun' = [tun EXCEPT !.pc = IF tun.elapsed < SSH_TUNNEL_TIMEOUT_SECS
                                 THEN "s_try_wait" ELSE "s_timeout"]
    /\ TunFrame

\* variant: an exited subprocess does not end the wait
AfterTryWaitIgnoresExit(observed) == "s_connect"

\* ssh_tunnel.rs 231-243: return the error when try_wait gave a status
AfterTryWait(observed) == IF observed THEN "returned" ELSE "s_connect"

\* ssh_tunnel.rs 229-243: c.try_wait(); Ok(Some(status)) only for a
\* subprocess that has exited, and the call itself may fail (try_wait_ok)
SysTryWait(try_wait_ok) ==
    /\ tun.pc = "s_try_wait"
    /\ LET observed == try_wait_ok /\ tun.child \in {"exited", "killed"}
           seen == [tun EXCEPT !.observed = observed]
       IN IF AfterTryWait(observed) = "returned"
          THEN tun' = TunReturn(seen, TunErr(ExitedMsg(tun.status, tun.stderr_log, <<>>)))
          ELSE tun' = [seen EXCEPT !.pc = "s_connect"]
    /\ TunFrame

\* ssh_tunnel.rs 246-259: TcpStream::connect("127.0.0.1:<local_port>")
\* succeeds when anything listens on the port, the subprocess or not;
\* when it fails the thread sleeps SSH_CONNECT_RETRY_MS, a fraction of a
\* second, and the loop goes on
SysConnect ==
    /\ tun.pc = "s_connect"
    /\ IF tun.listening \/ tun.taken
       THEN tun' = TunReturn([tun EXCEPT !.connected = TRUE], TunOk)
       ELSE tun' = [tun EXCEPT !.pc = "s_loop"]
    /\ TunFrame

\* Child::kill (ssh_tunnel.rs 265, 456): a running subprocess is killed; the
\* call is counted
Kill(t) ==
    [t EXCEPT !.child = IF @ = "running" THEN "killed" ELSE @,
              !.listening = IF t.child = "running" THEN FALSE ELSE @,
              !.kills = @ + 1]

\* ssh_tunnel.rs 262-268: not ready: kill the subprocess, timeout error
SysTimeout ==
    /\ tun.pc = "s_timeout"
    /\ tun' = TunReturn(Kill(tun), TunErr(SystemSshTimeoutMsg))
    /\ TunFrame

\* the subprocess exits by itself (authentication refused, network lost)
ChildExit(status) ==
    /\ tun.child = "running"
    /\ tun' = [tun EXCEPT !.child = "exited", !.status = status,
                          !.listening = FALSE]
    /\ TunFrame

\* the subprocess starts listening on the local port, which it can bind
\* only while no other socket has it
PortOpens ==
    /\ tun.child = "running"
    /\ ~tun.listening
    /\ ~tun.taken
    /\ tun' = [tun EXCEPT !.listening = TRUE]
    /\ TunFrame

\* ssh_tunnel.rs 199-213: the reader thread captures a line of stderr
CaptureStderr ==
    /\ tun.child # "none"
    /\ Len(tun.stderr_log) < Len(ChildStderr)
    /\ tun' = [tun EXCEPT !.stderr_log =
                  Append(@, ChildStderr[Len(tun.stderr_log) + 1])]
    /\ TunFrame

\* a second passes while new_system_ssh or new_russh waits
Tick ==
    /\ \/ /\ tun.pc \in {"s_loop", "s_try_wait", "s_connect", "r_wait"}
          /\ tun.elapsed < MaxTime
       \/ /\ tun.th = "t_auth"
          /\ tun.elapsed - tun.auth_start < SSH_AUTH_TIMEOUT_SECS
    /\ tun' = [tun EXCEPT !.elapsed = @ + 1]
    /\ TunFrame

\* the thread of new_russh sends msg on the ready channel
Send(t, msg) == [t EXCEPT !.chan = Append(@, msg)]
\* the async block returns Err(err): the thread forwards it on the ready
\* channel (ssh_tunnel.rs 434-436) and ends, which drops the runtime
ThreadFails(t, err) == [Send(t, TunErr(err)) EXCEPT !.th = "t_exited"]
\* ssh_tunnel.rs 364-365, 371-372: the error is sent, then returned
ThreadFailsSent(t, err) == ThreadFails(Send(t, TunErr(err)), err)

RusshTimeoutMsg == "Timed out waiting for Russh tunnel to initialize (10s)"

\* ssh_tunnel.rs 288: TcpListener::bind on the chosen port fails when
\* another socket is bound to it
BindFails(taken) == taken

\* ssh_tunnel.rs 288-311: bind the listener, make it nonblocking, create the
\* liveness flag and the ready channel, spawn the thread
RuBind ==
    /\ tun.pc = "r_bind"
    /\ IF BindFails(tun.taken)
       THEN tun' = TunReturn(tun, TunErr("Failed to bind local port"))
       ELSE \/ tun' = TunReturn(tun, TunErr("Failed to set listener nonblocking"))
            \/ tun' = [tun EXCEPT !.pc = "r_wait", !.running = TRUE,
                                  !.listening = TRUE, !.th = "t_runtime"]
    /\ TunFrame

\* ssh_tunnel.rs 312-320: Runtime::new()
ThRuntime ==
    /\ tun.th = "t_runtime"
    /\ \/ tun' = [Send(tun, TunErr("Failed to start Tokio runtime"))
                     EXCEPT !.th = "t_exited"]
       \/ tun' = [tun EXCEPT !.th = "t_connect"]
    /\ TunFrame

\* variant: only a key file counts as a credential
AuthBranchKeyOnly(t) ==
    IF ~is_empty_or_whitespace(t.ssh_key_file) THEN "t_load_key"
    ELSE "t_no_credentials"

\* the authentication branch taken after the connect (ssh_tunnel.rs 331-366)
AuthBranch(t) ==
    IF ~is_empty_or_whitespace(t.ssh_key_file) THEN "t_load_key"
    ELSE IF t.ssh_password # None THEN "t_auth"
    ELSE "t_no_credentials"

\* ssh_tunnel.rs 327-329: client::connect(..).await completes, if it ever
\* does
ThConnect(ok) ==
    /\ tun.th = "t_connect"
    /\ IF ~ok THEN tun' = ThreadFails(tun, "Failed to connect to SSH server")
       ELSE IF AuthBranch(tun) = "t_no_credentials"
       THEN tun' = ThreadFailsSent(tun, "No SSH credentials provided for russh")
       ELSE tun' = [tun EXCEPT !.th = AuthBranch(tun), !.auth_start = tun.elapsed]
    /\ TunFrame

\* ssh_tunnel.rs 338-339: load_secret_key
ThLoadKey ==
    /\ tun.th = "t_load_key"
    /\ \/ tun' = ThreadFails(tun, "SSH key auth failed")
       \/ tun' = [tun EXCEPT !.th = "t_auth", !.auth_start = tun.elapsed]
    /\ TunFrame

AuthResults == {"true", "false", "error"}

\* ssh_tunnel.rs 341-360: the authentication completes, if it ever
\* does, within its timeout
ThAuth(result) ==
    /\ tun.th = "t_auth"
    /\ tun.elapsed - tun.auth_start < SSH_AUTH_TIMEOUT_SECS
    /\ tun' = IF result = "true" THEN [tun EXCEPT !.th = "t_listener"]
              ELSE IF result = "false"
              THEN ThreadFailsSent(tun, "SSH authentication failed (authenticated=false)")
              ELSE ThreadFails(tun, "SSH auth failed")
    /\ TunFrame

\* ssh_tunnel.rs 341-347: tokio::time::timeout(SSH_AUTH_TIMEOUT_SECS, ..)
ThAuthTimeout ==
    /\ tun.th = "t_auth"
    /\ tun.elapsed - tun.auth_start >= SSH_AUTH_TIMEOUT_SECS
    /\ tun' = ThreadFails(tun, "SSH authentication timed out after 30 seconds")
    /\ TunFrame

\* ssh_tunnel.rs 377-383: the listener becomes a tokio listener and the
\* success signal is sent
ThListener ==
    /\ tun.th = "t_listener"
    /\ \/ tun' = ThreadFails(tun, "Failed to configure async listener")
       \/ tun' = [Send(tun, TunOk) EXCEPT !.th = "t_loop"]
    /\ TunFrame

\* variant: the loop runs whatever the flag says
KeepAcceptingAlways(running) == TRUE

\* ssh_tunnel.rs 386: while running_clone.load(Ordering::Relaxed)
KeepAccepting(running) == running

ThLoopHead ==
    /\ tun.th = "t_loop"
    /\ tun' = [tun EXCEPT !.th = IF KeepAccepting(tun.running)
                                 THEN "t_accept" ELSE "t_exiting"]
    /\ TunFrame

AcceptOutcomes == {"connection", "error", "timeout"}

\* ssh_tunnel.rs 387-428: timeout(SSH_ACCEPT_POLL_MS, listener.accept()): a
\* connection is handed to a new relay task; an error or the timeout
\* continues the loop
ThAccept(outcome) ==
    /\ tun.th = "t_accept"
    /\ outcome = "connection" => Len(tun.relays) < MaxRelays
    /\ tun' = IF outcome = "connection"
              THEN [tun EXCEPT !.th = "t_loop", !.accepted = @ + 1,
                               !.relays = Append(@, "open")]
              ELSE [tun EXCEPT !.th = "t_loop"]
    /\ TunFrame

\* ssh_tunnel.rs 405: handle.lock().await: the relay task takes the lock on
\* the shared session handle once it is free
RelayLock(i) ==
    /\ i \in 1..Len(tun.relays)
    /\ tun.relays[i] = "open"
    /\ tun.handle_lock = 0
    /\ tun' = [tun EXCEPT !.relays[i] = "opening", !.handle_lock = i]
    /\ TunFrame

\* variant: the guard lives until the end of the task (no drop(handle))
LockAfterOpenKept(i, ok) == IF ok THEN i ELSE 0

\* ssh_tunnel.rs 416-421: the guard is dropped when the task returns on the
\* error, and by drop(handle) once the channel is open
LockAfterOpen(i, ok) == 0

\* ssh_tunnel.rs 406-425: channel_open_direct_tcpip returns; the task gives
\* up on an error and otherwise starts copy_bidirectional
RelayOpen(i, ok) ==
    /\ i \in 1..Len(tun.relays)
    /\ tun.relays[i] = "opening"
    /\ tun' = [tun EXCEPT !.relays[i] = IF ok THEN "copy" ELSE "failed",
                          !.handle_lock = LockAfterOpen(i, ok)]
    /\ TunFrame

\* ssh_tunnel.rs 425-428: copy_bidirectional returns and the task ends
RelayDone(i) ==
    /\ i \in 1..Len(tun.relays)
    /\ tun.relays[i] = "copy"
    /\ tun' = [tun EXCEPT !.relays[i] = "done",
                          !.handle_lock = IF @ = i THEN 0 ELSE @]
    /\ TunFrame

\* ssh_tunnel.rs 431-437: the loop is left, block_on returns Ok(()) and the
\* thread ends: the runtime is dropped with the listener and with every
\* task still on it
ThExit ==
    /\ tun.th = "t_exiting"
    /\ tun' = [tun EXCEPT !.th = "t_exited", !.listening = FALSE,
                          !.handle_lock = 0,
                          !.relays = [i \in 1..Len(tun.relays) |->
                                         IF tun.relays[i] \in {"done", "failed"}
                                         THEN tun.relays[i]
                                         ELSE "cancelled"]]
    /\ TunFrame

\* variant: recv() without a timeout
RecvTimedOutNever(elapsed) == FALSE

\* ssh_tunnel.rs 439: recv_timeout(Duration::from_secs(SSH_TUNNEL_TIMEOUT_SECS))
RecvTimedOut(elapsed) == elapsed >= SSH_TUNNEL_TIMEOUT_SECS

\* ssh_tunnel.rs 439-446: the first message on the ready channel, or the
\* timeout when none has come
RuRecv ==
    /\ tun.pc = "r_wait"
    /\ IF tun.chan # <<>>
       THEN tun' = TunReturn(tun, tun.chan[1])
       ELSE /\ RecvTimedOut(tun.elapsed)
            /\ tun' = TunReturn(tun, TunErr(RusshTimeoutMsg))
    /\ TunFrame

\* the holders of a clone of the tunnel that may call stop()
Clones == 1..2

\* variant: stop flips the liveness flag
StoppedRunningFlipped(running) == ~running

\* ssh_tunnel.rs 452: running.store(false, Ordering::Relaxed)
StoppedRunning(running) == FALSE

\* ssh_tunnel.rs 449-460: stop() on clone c of a tunnel that new returned
stop(c) ==
    /\ tun.pc = "returned"
    /\ tun.ret[1].ok
    /\ Len(tun.stops) < MaxStops
    /\ tun' = IF should_use_system_ssh(tun.ssh_password)
              THEN [Kill(tun) EXCEPT !.stops = Append(@, c)]
              ELSE [tun EXCEPT !.running = StoppedRunning(@),
                               !.stops = Append(@, c)]
    /\ TunFrame

\* ------------------------------------------- the life of stored tunnels
\* variant: stop() evicts the tunnel from the registry
RegistryAfterStopEvicts(m, i) == [k \in {x \in DOMAIN m : m[x] # i} |-> m[k]]

\* ssh_tunnel.rs 449-460: stop() does not touch TUNNELS
RegistryAfterStop(m, i) == m

\* a holder of a clone of tunnel i (TUNNELS is public, SshTunnel is Clone)
\* calls stop(): the accept loop ends or the subprocess is killed
StopStored(i) ==
    /\ i \in 1..Len(tunnelObjs)
    /\ ~tunnelObjs[i].stopped
    /\ tunnelObjs' = [tunnelObjs EXCEPT ![i].live = FALSE, ![i].stopped = TRUE]
    /\ tunnels' = RegistryAfterStop(tunnels, i)
    /\ lastCancel' = NoCancel
    /\ UNCHANGED <<pc, loc, ret, tunnelsLock, handles, handlesLock, tasks,
                   newCount, helper, drv, tun, saved>>

\* the ssh subprocess of tunnel i exits by itself (connection lost, server
\* restarted): nothing in the program observes it (try_wait is called only
\* while new_system_ssh waits, ssh_tunnel.rs 231)
SubprocessExits(i) ==
    /\ i \in 1..Len(tunnelObjs)
    /\ tunnelObjs[i].backend = "SystemSsh"
    /\ tunnelObjs[i].live
    /\ tunnelObjs' = [tunnelObjs EXCEPT ![i].live = FALSE]
    /\ lastCancel' = NoCancel
    /\ UNCHANGED <<pc, loc, ret, tunnels, tunnelsLock, handles, handlesLock,
                   tasks, newCount, helper, drv, tun, saved>>

\* commands.rs 320-340: delete_connection(id) rewrites connections.json
\* without the connection and removes its secrets from the keychain
delete_connection(id) ==
    /\ saved' = saved \ {id}
    /\ lastCancel' = NoCancel
    /\ UNCHANGED <<pc, loc, ret, tunnels, tunnelObjs, tunnelsLock, handles,
                   handlesLock, tasks, newCount, helper, drv, tun>>

\* ----------------------------------------------------- build_connection_url
\* urlencoding::encode: every byte outside A-Z a-z 0-9 - _ . ~ is written
\* as % and its two hexadecimal digits; these are the ones used here
PercentCodes ==
    ("@" :> "%40") @@ (":" :> "%3A") @@ ("/" :> "%2F") @@ (" " :> "%20")

RECURSIVE EncodeFrom(_, _)
EncodeFrom(s, i) ==
    IF i > Len(s) THEN ""
    ELSE (IF Byte(s, i) \in DOMAIN PercentCodes
          THEN PercentCodes[Byte(s, i)] ELSE Byte(s, i))
            \o EncodeFrom(s, i + 1)
encode(s) == EncodeFrom(s, 1)

\* Result<String, String>
UrlOk(url) == [ok |-> TRUE, err |-> "", url |-> url]
UrlErr(msg) == [ok |-> FALSE, err |-> msg, url |-> ""]

\* variant: the driver tag is compared without regard to case and a tag
\* that is still unknown gets a MySQL URL
BuildConnectionUrlLenient(params) ==
    LET user == encode(UnwrapOr(params.username, ""))
        pass == encode(UnwrapOr(params.password, ""))
        host == UnwrapOr(params.host, "localhost")
        driver == to_uppercase(params.driver)
    IN IF driver = "SQLITE" THEN UrlOk("sqlite://" \o params.database)
       ELSE IF driver = "POSTGRES"
       THEN UrlOk("postgres://" \o user \o ":" \o pass \o "@" \o host \o ":"
                    \o ToString(UnwrapOr(params.port, DEFAULT_POSTGRES_PORT))
                    \o "/" \o params.database)
       ELSE UrlOk("mysql://" \o user \o ":" \o pass \o "@" \o host \o ":"
                    \o ToString(UnwrapOr(params.port, DEFAULT_MYSQL_PORT))
                    \o "/" \o params.database)

\* commands.rs 1719-1744
build_connection_url(params) ==
    LET user == encode(UnwrapOr(params.username, ""))
        pass == encode(UnwrapOr(params.password, ""))
        host == UnwrapOr(params.host, "localhost")
    IN IF params.driver = "sqlite" THEN UrlOk("sqlite://" \o params.database)
       ELSE IF params.driver = "postgres"
       THEN UrlOk("postgres://" \o user \o ":" \o pass \o "@" \o host \o ":"
                    \o ToString(UnwrapOr(params.port, DEFAULT_POSTGRES_PORT))
                    \o "/" \o params.database)
       ELSE IF params.driver = "mysql"
       THEN UrlOk("mysql://" \o user \o ":" \o pass \o "@" \o host \o ":"
                    \o ToString(UnwrapOr(params.port, DEFAULT_MYSQL_PORT))
                    \o "/" \o params.database)
       ELSE UrlErr("Unsupported driver")

\* the parameters build_connection_url is called with: the three dialects
\* (test module, lines 1011-1073), credentials with reserved characters
\* (lines 1040-1053) and tags outside the three dialects (lines 1075-1081)
UrlInputs ==
    {PlainParams,
     [PlainParams EXCEPT !.username = Some("a@b"), !.password = Some("p:w/ x")],
     [PlainParams EXCEPT !.driver = "postgres", !.host = None, !.port = None],
     [PlainParams EXCEPT !.driver = "sqlite", !.database = "/tmp/test.db"],
     OtherDriverParams,
     [PlainParams EXCEPT !.driver = "MySQL"]}

\* build_connection_url is applied to the parameters
CallBuildConnectionUrl ==
    /\ helper.fn = "build_connection_url"
    /\ helper.out = None
    /\ helper' = [helper EXCEPT !.out = Some(build_connection_url(helper.args[1]))]
    /\ UNCHANGED <<pc, loc, ret, tunnels, tunnelObjs, tunnelsLock, handles,
                   handlesLock, tasks, newCount, lastCancel, drv, tun, saved>>

\* the task body panics: the driver's page offset overflows in a build with
\* overflow checks (mysql.rs 743, sqlite.rs 441) or remove_order_by slices
\* the statement off a char boundary (mysql.rs 460-463, sqlite.rs 408-411).
\* The task ends without an output and its JoinHandle yields Err(JoinError).
TaskPanics(t) ==
    /\ t \in 1..Len(tasks)
    /\ tasks[t].state = "running"
    /\ tasks[t].driver \in Dialects
    /\ tasks' = [tasks EXCEPT ![t].state = "panicked"]
    /\ lastCancel' = NoCancel
    /\ UNCHANGED <<pc, loc, ret, tunnels, tunnelObjs, tunnelsLock, handles,
                   handlesLock, newCount>>
    /\ UNCHANGED <<helper, drv, tun, saved>>

\* -------------------------------------------- export, dump, import and MCP
\* export_query_to_file (export.rs 55-56), dump_database and import_database
\* (dump_commands.rs 51-52 and 425-426) and the MCP handlers (mcp/mod.rs
\* 188-197 and 268-277) look the saved connection up and pass its params to
\* resolve_connection_params as they are saved
PathCommands ==
    {"export_query_to_file", "dump_database", "import_database", "mcp"}

StartPathCommand(p, cmd, id) ==
    /\ MayStart(p)
    /\ LET saved_conn == find_connection_by_id(id)
           l0 == [NoLoc EXCEPT !.cmd = cmd, !.conn = id]
       IN IF ~saved_conn.ok
          THEN ResolveExit(p, l0, saved_conn)
          ELSE ResolveEnter(p, [l0 EXCEPT !.driver = saved_conn.params[1].driver],
                            saved_conn.params[1])
    /\ lastCancel' = NoCancel
    /\ UNCHANGED <<tunnels, tunnelObjs, tunnelsLock, handles, handlesLock, newCount>>
    /\ UNCHANGED <<helper, drv, tun, saved>>

\* --------------------------------------------- credentials of test requests
\* the outcome of a resolver with the lookups it invoked on the way
Resolved(val, invoked) == [val |-> val, invoked |-> invoked]

\* !s.trim().is_empty()
NonBlank(s) == Len(trim(s)) # 0

\* Result<String, String> of a keychain lookup
KeychainResults ==
    {[ok |-> TRUE, val |-> "kc"], [ok |-> TRUE, val |-> "  "],
     [ok |-> FALSE, val |-> ""]}

\* commands.rs 1746-1769; saved_conn is what the caller found (lines 877-880)
resolve_test_connection_password(params, saved_conn, get_keychain_password) ==
    IF params.password # None THEN Resolved(params.password, {})
    ELSE IF saved_conn = None THEN Resolved(None, {})
    ELSE LET saved_entry == saved_conn[1]
             use_keychain == UnwrapOr(saved_entry.save_in_keychain, FALSE)
             invoked == IF use_keychain THEN {"keychain"} ELSE {}
         IN IF use_keychain /\ get_keychain_password.ok
                 /\ NonBlank(get_keychain_password.val)
            THEN Resolved(Some(get_keychain_password.val), invoked)
            ELSE IF saved_entry.password # None /\ NonBlank(saved_entry.password[1])
            THEN Resolved(saved_entry.password, invoked)
            ELSE Resolved(None, invoked)

\* variant: the saved credential is taken as it is
SavedCredentialUnfiltered(credential) == credential

\* commands.rs 1818-1823 and 851-856: the extractor both callers pass:
\* .filter(|p| !p.trim().is_empty())
SavedCredential(credential) ==
    IF credential # None /\ NonBlank(credential[1]) THEN credential ELSE None

\* commands.rs 1775-1804; get_ssh_connection maps an id to the SSH profile
\* found for it, if any, and the credential of the profile is its password
\* (resolve_ssh_test_password) or its key passphrase (line 837)
resolve_ssh_test_credential(request_credential, connection_id, get_ssh_connection, get_keychain_credential) ==
    IF request_credential # None THEN Resolved(request_credential, {})
    ELSE IF connection_id = None THEN Resolved(None, {})
    ELSE IF get_ssh_connection[connection_id[1]] = None
    THEN Resolved(None, {"saved"})
    ELSE LET saved_entry == get_ssh_connection[connection_id[1]][1]
             use_keychain == UnwrapOr(saved_entry.save_in_keychain, FALSE)
             invoked == {"saved"} \cup (IF use_keychain THEN {"keychain"} ELSE {})
         IN IF use_keychain /\ get_keychain_credential.ok
                 /\ NonBlank(get_keychain_credential.val)
            THEN Resolved(Some(get_keychain_credential.val), invoked)
            ELSE Resolved(SavedCredential(saved_entry.credential), invoked)

\* the credentials a request or a saved entry may carry
Credentials == {None, Some(""), Some("  "), Some("secret")}
\* saved entries: save_in_keychain and the stored credential
SavedEntries ==
    [save_in_keychain : {None, Some(FALSE), Some(TRUE)},
     credential : {None, Some("  "), Some("saved")}]
SshIds == {"s1", "s9"}

CallResolveTestConnectionPassword ==
    /\ helper.fn = "resolve_test_connection_password"
    /\ helper.out = None
    /\ helper' = [helper EXCEPT !.out =
                     Some(resolve_test_connection_password(
                              helper.args[1], helper.args[2], helper.args[3]))]
    /\ UNCHANGED <<pc, loc, ret, tunnels, tunnelObjs, tunnelsLock, handles,
                   handlesLock, tasks, newCount, lastCancel, drv, tun, saved>>

CallResolveSshTestCredential ==
    /\ helper.fn = "resolve_ssh_test_credential"
    /\ helper.out = None
    /\ helper' = [helper EXCEPT !.out =
                     Some(resolve_ssh_test_credential(
                              helper.args[1], helper.args[2], helper.args[3],
                              helper.args[4]))]
    /\ UNCHANGED <<pc, loc, ret, tunnels, tunnelObjs, tunnelsLock, handles,
                   handlesLock, tasks, newCount, lastCancel, drv, tun, saved>>

\* ----------------------------------------------------------- specifications
\* SpecTunnel: concurrent commands that resolve connection parameters
InitTunnel ==
    /\ helper = NoHelper
    /\ drv = NoDrv
    /\ tun = NoTun
    /\ pc = [p \in 1..NumResolves |-> "idle"]
    /\ InitCommon

NextTunnel ==
    \/ \E p \in Procs, params \in ResolveInputs : StartResolve(p, params)
    \/ \E p \in Procs : ResolveLookup(p)
    \/ \E p \in Procs : ResolveLookupUnlock(p)
    \/ \E p \in Procs : ResolveNew(p)
    \/ \E p \in Procs : ResolveInsert(p)
    \/ \E p \in Procs : ResolveInsertUnlock(p)

SpecTunnel == InitTunnel /\ [][NextTunnel]_vars

\* Spec: concurrent execute_query and cancel_query commands on connections
\* that are reached directly (resolve_connection_params returns at line 94)
Init ==
    /\ helper = NoHelper
    /\ drv = NoDrv
    /\ tun = NoTun
    /\ pc = [p \in 1..NumQueries |-> "idle"]
    /\ InitCommon

Next ==
    \/ \E p \in Procs, id \in DirectIds : StartExecuteQuery(p, id)
    \/ \E p \in Procs : ExecRegister(p)
    \/ \E p \in Procs : ExecRegisterUnlock(p)
    \/ \E t \in 1..Len(tasks) : TaskFetch(t)
    \/ \E t \in 1..Len(tasks) : TaskFinish(t)
    \/ \E p \in Procs : ExecCleanup(p)
    \/ \E p \in Procs : ExecCleanupUnlock(p)
    \/ \E id \in DirectIds : cancel_query(id)

Spec == Init /\ [][Next]_vars

\* SpecCommands: execute_query on any connection, through an SSH tunnel too,
\* together with cancel_query
InitCommands ==
    /\ helper = NoHelper
    /\ drv = NoDrv
    /\ tun = NoTun
    /\ pc = [p \in 1..NumCommands |-> "idle"]
    /\ InitCommon

NextCommands ==
    \/ \E p \in Procs, id \in ConnectionIds : StartExecuteQuery(p, id)
    \/ \E p \in Procs : ResolveLookup(p)
    \/ \E p \in Procs : ResolveLookupUnlock(p)
    \/ \E p \in Procs : ResolveNew(p)
    \/ \E p \in Procs : ResolveInsert(p)
    \/ \E p \in Procs : ResolveInsertUnlock(p)
    \/ \E p \in Procs : ExecRegister(p)
    \/ \E p \in Procs : ExecRegisterUnlock(p)
    \/ \E t \in 1..Len(tasks) : TaskFetch(t)
    \/ \E t \in 1..Len(tasks) : TaskFinish(t)
    \/ \E p \in Procs : ExecCleanup(p)
    \/ \E p \in Procs : ExecCleanupUnlock(p)
    \/ \E id \in ConnectionIds : cancel_query(id)

SpecCommands == InitCommands /\ [][NextCommands]_vars

\* SpecHelpers: single calls of the pure helper functions
KeyUsers == {"", "user", "admin"}
KeyHosts == {"host", "host.example.com", "jump.server"}
KeySshPorts == {22, 2222}
KeyRemoteHosts == {"remote", "db.internal", "localhost"}
KeyRemotePorts == {80, 3306, 5432}

InitHelpers ==
    /\ pc = <<>>
    /\ InitCommon
    /\ drv = NoDrv
    /\ tun = NoTun
    /\ \/ \E u \in KeyUsers, h \in KeyHosts, sp \in KeySshPorts,
             rh \in KeyRemoteHosts, rp \in KeyRemotePorts :
             helper = [fn |-> "build_tunnel_key", args |-> <<u, h, sp, rh, rp>>,
                       out |-> None]
       \/ \E query \in Queries :
             helper = [fn |-> "order_by", args |-> <<query>>, out |-> None]
       \/ \E dialect \in ExtractDialects :
             \E cell \in Cells(dialect) :
                helper = [fn |-> "extract_value", args |-> <<dialect, cell>>,
                          out |-> None]
       \/ \E password \in Credentials, entry \in SavedEntries, found \in BOOLEAN,
             kc \in KeychainResults :
             helper = [fn |-> "resolve_test_connection_password",
                       args |-> <<[password |-> password],
                                  IF found
                                  THEN Some([save_in_keychain |-> entry.save_in_keychain,
                                             password |-> entry.credential])
                                  ELSE None,
                                  kc>>,
                       out |-> None]
       \/ \E request \in Credentials, id \in {None} \cup {Some(i) : i \in SshIds},
             entry \in SavedEntries, kc \in KeychainResults :
             helper = [fn |-> "resolve_ssh_test_credential",
                       args |-> <<request, id,
                                  ("s1" :> Some(entry)) @@ ("s9" :> None), kc>>,
                       out |-> None]

\* the call returns
CallBuildTunnelKey ==
    /\ helper.fn = "build_tunnel_key"
    /\ helper.out = None
    /\ helper' = [helper EXCEPT !.out =
                     Some(build_tunnel_key(helper.args[1], helper.args[2],
                                           helper.args[3], helper.args[4],
                                           helper.args[5]))]
    /\ UNCHANGED <<pc, loc, ret, tunnels, tunnelObjs, tunnelsLock, handles,
                   handlesLock, tasks, newCount, lastCancel, drv, tun, saved>>

\* extract_order_by and remove_order_by are applied to the statement, as
\* execute_query (mysql.rs 766-771) and their tests do
CallOrderBy ==
    /\ helper.fn = "order_by"
    /\ helper.out = None
    /\ helper' = [helper EXCEPT !.out =
                     Some([extracted |-> extract_order_by(helper.args[1]),
                           removed |-> remove_order_by(helper.args[1])])]
    /\ UNCHANGED <<pc, loc, ret, tunnels, tunnelObjs, tunnelsLock, handles,
                   handlesLock, tasks, newCount, lastCancel, drv, tun, saved>>

\* a driver extracts one cell of a row (mysql.rs 814-817)
CallExtractValue ==
    /\ helper.fn = "extract_value"
    /\ helper.out = None
    /\ helper' = [helper EXCEPT !.out =
                     Some(extract_value(helper.args[1], helper.args[2]))]
    /\ UNCHANGED <<pc, loc, ret, tunnels, tunnelObjs, tunnelsLock, handles,
                   handlesLock, tasks, newCount, lastCancel, drv, tun, saved>>

NextHelpers ==
    \/ CallBuildTunnelKey
    \/ CallOrderBy
    \/ CallExtractValue
    \/ CallResolveTestConnectionPassword
    \/ CallResolveSshTestCredential

SpecHelpers == InitHelpers /\ [][NextHelpers]_vars

\* SpecDriver: one call of a driver's execute_query(params, query, limit,
\* page), in a build with or without overflow checks
InitDriver ==
    /\ pc = <<>>
    /\ InitCommon
    /\ helper = NoHelper
    /\ tun = NoTun
    /\ \E dialect \in Dialects, query \in Queries, limit \in Limits,
          page \in Pages, overflow_checks \in BOOLEAN, stream \in 0..MaxStream :
          drv = [NoDrv EXCEPT !.pc = "d_start", !.dialect = dialect,
                              !.query = query, !.limit = limit, !.page = page,
                              !.overflow_checks = overflow_checks,
                              !.manual_limit = limit, !.stream = stream]

NextDriver ==
    \/ DriverConnectErr
    \/ \E count \in CountResults : DriverPrepare(count)
    \/ DriverRow
    \/ DriverRowErr
    \/ DriverEnd

SpecDriver == InitDriver /\ [][NextDriver]_vars

\* SpecSshTunnel: one call of SshTunnel::new with either backend and the
\* threads it starts, until the call has returned and the thread of
\* new_russh has ended or entered its forwarding loop
InitSshTunnel ==
    /\ pc = <<>>
    /\ InitCommon
    /\ helper = NoHelper
    /\ drv = NoDrv
    /\ \E ssh_password \in {None, Some(Blank), Some(Secret)},
          ssh_key_file \in {None, Some(Blank), Some(KeyFile)} :
          tun = [NoTun EXCEPT !.pc = "n_start", !.ssh_password = ssh_password,
                              !.ssh_key_file = ssh_key_file]

NextSshTunnel ==
    \/ NewDispatch
    \/ OtherBinds
    \/ SysSpawn
    \/ SysLoopHead
    \/ \E try_wait_ok \in BOOLEAN : SysTryWait(try_wait_ok)
    \/ SysConnect
    \/ SysTimeout
    \/ \E status \in ExitStatuses : ChildExit(status)
    \/ PortOpens
    \/ CaptureStderr
    \/ Tick
    \/ RuBind
    \/ ThRuntime
    \/ \E ok \in BOOLEAN : ThConnect(ok)
    \/ ThLoadKey
    \/ \E result \in AuthResults : ThAuth(result)
    \/ ThAuthTimeout
    \/ ThListener
    \/ RuRecv

SpecSshTunnel == InitSshTunnel /\ [][NextSshTunnel]_vars

\* the steps of the program's own threads are taken when they can be, and
\* time passes; nothing is assumed of the subprocess, the network or the
\* SSH server
FairSshTunnel ==
    /\ WF_vars(NewDispatch)
    /\ WF_vars(SysSpawn)
    /\ WF_vars(SysLoopHead)
    /\ WF_vars(\E try_wait_ok \in BOOLEAN : SysTryWait(try_wait_ok))
    /\ WF_vars(SysConnect)
    /\ WF_vars(SysTimeout)
    /\ WF_vars(Tick)
    /\ WF_vars(RuBind)
    /\ WF_vars(RuRecv)

SpecSshTunnelFair == SpecSshTunnel /\ FairSshTunnel

\* a tunnel as SshTunnel::new returns it with Ok: the subprocess runs and
\* its port accepts connections, or the thread of new_russh has sent the
\* success signal and is about to test the liveness flag
ReturnedTunnel(ssh_password, ssh_key_file) ==
    IF should_use_system_ssh(ssh_password)
    THEN [NoTun EXCEPT !.pc = "returned", !.ssh_password = ssh_password,
                       !.ssh_key_file = ssh_key_file, !.ret = Some(TunOk),
                       !.child = "running", !.listening = TRUE,
                       !.connected = TRUE]
    ELSE [NoTun EXCEPT !.pc = "returned", !.ssh_password = ssh_password,
                       !.ssh_key_file = ssh_key_file, !.ret = Some(TunOk),
                       !.running = TRUE, !.listening = TRUE,
                       !.th = "t_loop", !.chan = <<TunOk>>]

\* SpecSshTunnelUse: the life of a tunnel that SshTunnel::new has returned:
\* its forwarding loop and relay tasks or its subprocess, and stop() on its
\* clones
InitSshTunnelUse ==
    /\ pc = <<>>
    /\ InitCommon
    /\ helper = NoHelper
    /\ drv = NoDrv
    /\ \E ssh_password \in {None, Some(Blank), Some(Secret)},
          ssh_key_file \in {None, Some(Blank), Some(KeyFile)} :
          tun = ReturnedTunnel(ssh_password, ssh_key_file)

NextSshTunnelUse ==
    \/ \E c \in Clones : stop(c)
    \/ \E status \in ExitStatuses : ChildExit(status)
    \/ ThLoopHead
    \/ \E outcome \in AcceptOutcomes : ThAccept(outcome)
    \/ \E i \in 1..MaxRelays : RelayLock(i)
    \/ \E i \in 1..MaxRelays, ok \in BOOLEAN : RelayOpen(i, ok)
    \/ \E i \in 1..MaxRelays : RelayDone(i)
    \/ ThExit

SpecSshTunnelUse == InitSshTunnelUse /\ [][NextSshTunnelUse]_vars

\* the steps of the forwarding thread are taken when they can be (the
\* accept returns within its poll timeout); nothing is assumed of the
\* callers of stop(), the local clients or the SSH server
FairSshTunnelUse ==
    /\ WF_vars(ThLoopHead)
    /\ WF_vars(\E outcome \in AcceptOutcomes : ThAccept(outcome))
    /\ WF_vars(ThExit)

SpecSshTunnelUseFair == SpecSshTunnelUse /\ FairSshTunnelUse

\* SpecRegistry: commands that resolve connection parameters and
\* execute_query commands (on statements that yield no row), together with
\* stop() on tunnels, subprocesses that exit and delete_connection
\* the parameters resolved here need a tunnel: the key of the saved
\* connection c1 with the native backend, and another key
RegistryInputs == {SshParamsA2, SshParamsB}

InitRegistry ==
    /\ helper = NoHelper
    /\ drv = NoDrv
    /\ tun = NoTun
    /\ pc = [p \in 1..NumRegistry |-> "idle"]
    /\ InitCommon

NextRegistry ==
    \/ \E p \in Procs, params \in RegistryInputs : StartResolve(p, params)
    \/ \E p \in Procs : ResolveLookup(p)
    \/ \E p \in Procs : ResolveLookupUnlock(p)
    \/ \E p \in Procs : ResolveNew(p)
    \/ \E p \in Procs : ResolveInsert(p)
    \/ \E p \in Procs : ResolveInsertUnlock(p)
    \/ \E p \in Procs, id \in ConnectionIds : StartExecuteQuery(p, id)
    \/ \E p \in Procs : ExecRegister(p)
    \/ \E p \in Procs : ExecRegisterUnlock(p)
    \/ \E t \in 1..Len(tasks) : TaskFinish(t)
    \/ \E p \in Procs : ExecCleanup(p)
    \/ \E p \in Procs : ExecCleanupUnlock(p)
    \/ \E i \in 1..Len(tunnelObjs) : StopStored(i)
    \/ \E i \in 1..Len(tunnelObjs) : SubprocessExits(i)
    \/ \E id \in ConnectionIds : delete_connection(id)

SpecRegistry == InitRegistry /\ [][NextRegistry]_vars

\* SpecDispatch: the two places that dispatch on the driver tag,
\* execute_query on a connection that is reached directly, with cancel_query
\* beside it, and one call of build_connection_url
InitDispatch ==
    /\ \E params \in UrlInputs :
          helper = [fn |-> "build_connection_url", args |-> <<params>>,
                    out |-> None]
    /\ drv = NoDrv
    /\ tun = NoTun
    /\ pc = [p \in 1..NumCommands |-> "idle"]
    /\ InitCommon

NextDispatch ==
    \/ Next
    \/ CallBuildConnectionUrl

SpecDispatch == InitDispatch /\ [][NextDispatch]_vars

\* SpecFaults: execute_query and cancel_query on connections reached
\* directly, where the task body may panic (statements that yield no row)
InitFaults ==
    /\ helper = NoHelper
    /\ drv = NoDrv
    /\ tun = NoTun
    /\ pc = [p \in 1..NumFaults |-> "idle"]
    /\ InitCommon

NextFaults ==
    \/ \E p \in Procs, id \in DirectIds : StartExecuteQuery(p, id)
    \/ \E p \in Procs : ExecRegister(p)
    \/ \E p \in Procs : ExecRegisterUnlock(p)
    \/ \E t \in 1..Len(tasks) : TaskFinish(t)
    \/ \E t \in 1..Len(tasks) : TaskPanics(t)
    \/ \E p \in Procs : ExecCleanup(p)
    \/ \E p \in Procs : ExecCleanupUnlock(p)
    \/ \E id \in DirectIds : cancel_query(id)

SpecFaults == InitFaults /\ [][NextFaults]_vars

\* SpecPaths: execute_query beside the export, dump, import and MCP
\* commands on the saved connections (statements that yield no row)
InitPaths ==
    /\ helper = NoHelper
    /\ drv = NoDrv
    /\ tun = NoTun
    /\ pc = [p \in 1..NumPaths |-> "idle"]
    /\ InitCommon

NextPaths ==
    \/ \E p \in Procs, id \in ConnectionIds : StartExecuteQuery(p, id)
    \/ \E p \in Procs, cmd \in PathCommands, id \in ConnectionIds :
          StartPathCommand(p, cmd, id)
    \/ \E p \in Procs : ResolveLookup(p)
    \/ \E p \in Procs : ResolveLookupUnlock(p)
    \/ \E p \in Procs : ResolveNew(p)
    \/ \E p \in Procs : ResolveInsert(p)
    \/ \E p \in Procs : ResolveInsertUnlock(p)
    \/ \E p \in Procs : ExecRegister(p)
    \/ \E p \in Procs : ExecRegisterUnlock(p)
    \/ \E t \in 1..Len(tasks) : TaskFinish(t)
    \/ \E p \in Procs : ExecCleanup(p)
    \/ \E p \in Procs : ExecCleanupUnlock(p)

SpecPaths == InitPaths /\ [][NextPaths]_vars

\* SpecCacheHit: concurrent commands whose parameters have one tunnel key
\* and differ in the SSH credentials only
CacheHitInputs == {SshParamsA, SshParamsA2, SshParamsA3}

InitCacheHit ==
    /\ helper = NoHelper
    /\ drv = NoDrv
    /\ tun = NoTun
    /\ pc = [p \in 1..NumCacheCalls |-> "idle"]
    /\ InitCommon

NextCacheHit ==
    \/ \E p \in Procs, params \in CacheHitInputs : StartResolve(p, params)
    \/ \E p \in Procs : ResolveLookup(p)
    \/ \E p \in Procs : ResolveLookupUnlock(p)
    \/ \E p \in Procs : ResolveNew(p)
    \/ \E p \in Procs : ResolveInsert(p)
    \/ \E p \in Procs : ResolveInsertUnlock(p)

SpecCacheHit == InitCacheHit /\ [][NextCacheHit]_vars

\* ------------------------------------------------------------------ claims
SshEnabled(params) == UnwrapOr(params.ssh_enabled, FALSE)
Returned(p) == pc[p] = "done" /\ ret[p] # None
LiveTunnels == {i \in 1..Len(tunnelObjs) : tunnelObjs[i].live}

\* C1: at most one live SshTunnel exists per tunnel key: a tunnel created by
\* a resolve_connection_params call that has returned is the one stored in
\* the registry under its key, or it has been stopped.
C1_OneLiveTunnelPerKey ==
    \A p \in Procs :
        (pc[p] = "done" /\ loc[p].tunnel \in LiveTunnels)
           => MapGet(tunnels, loc[p].map_key) = loc[p].tunnel

\* C2: two successful resolve calls with the same tunnel key return the same
\* local port, and SshTunnel::new was not invoked by both of them.
C2_SamePortOneFactoryCall ==
    \A p, q \in Procs :
        (/\ p # q
         /\ Returned(p) /\ Returned(q)
         /\ loc[p].map_key # "" /\ loc[p].map_key = loc[q].map_key
         /\ ret[p][1].ok /\ ret[q][1].ok)
        => /\ ret[p][1].params[1].port = ret[q][1].params[1].port
           /\ ~("new" \in loc[p].effects /\ "new" \in loc[q].effects)

\* every error text SshTunnel::new can produce for args
AllNewErrors(args) == NewErrors(args) \cup {"Failed to find free local port"}

\* C3: when SshTunnel::new fails, resolve_connection_params ends at once with
\* that error text unchanged, after a single invocation of SshTunnel::new, and
\* neither that step nor the call as a whole inserts into the registry.
C3_FailedNewNoInsert ==
    [][\A p \in Procs :
          /\ (pc[p] = "r_new" /\ pc'[p] \notin {"r_new", "r_insert"})
                => /\ pc'[p] = "done"
                   /\ ret'[p] # None
                   /\ ~ret'[p][1].ok
                   /\ ret'[p][1].err \in AllNewErrors(loc[p].args[1])
                   /\ tunnels' = tunnels
                   /\ tunnelObjs' = tunnelObjs
                   /\ newCount'[loc[p].map_key] = MapGet(newCount, loc[p].map_key) + 1
          /\ (Returned(p) /\ "new" \in loc[p].effects /\ ~ret[p][1].ok)
                => "insert" \notin loc[p].effects
      ]_vars

C3_Witness ==
    \E p \in Procs :
        /\ Returned(p) /\ "new" \in loc[p].effects /\ ~ret[p][1].ok
        /\ loc[p].map_key \notin DOMAIN tunnels

\* C9: with ssh_enabled false or absent, resolve_connection_params returns
\* its input unchanged in every field, without looking up, creating or
\* inserting a tunnel.
C9_DisabledSshUnchanged ==
    [][\A p \in Procs, params \in ResolveInputs :
          (StartResolve(p, params) /\ ~SshEnabled(params))
             => /\ pc'[p] = "done"
                /\ ret'[p] = Some(Ok(Some(params), 0))
                /\ loc'[p].effects = {}
                /\ UNCHANGED <<tunnels, tunnelObjs, newCount, tunnelsLock>>
      ]_vars

C9_Witness ==
    \E p, q \in Procs :
        /\ Returned(p) /\ loc[p].input = PlainParams /\ ret[p][1].ok
        /\ Returned(q) /\ loc[q].input = DisabledParams /\ ret[q][1].ok

\* C10: with ssh_enabled true, a missing ssh_host gives "Missing SSH Host"
\* (also when ssh_user is missing too), a missing ssh_user alone gives
\* "Missing SSH User"; no tunnel is created and the registry is unchanged.
C10_MissingHostOrUser ==
    [][\A p \in Procs, params \in ResolveInputs :
          (/\ StartResolve(p, params)
           /\ SshEnabled(params)
           /\ (params.ssh_host = None \/ params.ssh_user = None))
             => /\ pc'[p] = "done"
                /\ ret'[p] = Some(Err(IF params.ssh_host = None
                                      THEN "Missing SSH Host"
                                      ELSE "Missing SSH User"))
                /\ loc'[p].effects = {}
                /\ UNCHANGED <<tunnels, tunnelObjs, newCount, tunnelsLock>>
      ]_vars

C10_Witness ==
    \E p, q \in Procs :
        /\ Returned(p) /\ loc[p].input = NoHostNoUserParams
        /\ ret[p][1].err = "Missing SSH Host"
        /\ Returned(q) /\ loc[q].input = NoUserParams
        /\ ret[q][1].err = "Missing SSH User"

TaskOf(p) == loc[p].task
Registered(t) == pc[tasks[t].owner] \in {"e_registered", "e_await", "e_cleaned", "done"}
InHandles(t) == MapGet(handles, tasks[t].conn) = t

\* C4: the cleanup of an execute_query invocation removes the entry of its
\* connection id only if the entry still holds the invocation's own handle;
\* an entry registered by another invocation is left in place.
C4_CleanupOnlyOwnHandle ==
    [][\A p \in Procs :
          (pc[p] = "e_await" /\ pc'[p] = "e_cleaned")
             => handles' = IF MapGet(handles, loc[p].conn) = TaskOf(p)
                           THEN MapRemove(handles, loc[p].conn)
                           ELSE handles
      ]_vars

\* C5: cancel_query(id) on a registered id aborts the registered task,
\* removes the entry and returns Ok; on an id without entry it returns
\* "No running query found" and changes nothing; an entry only appears
\* through a registration, so a cancel following a successful cancel of the
\* same id with no registration in between finds no entry.
C5_CancelQuery ==
    [][/\ (lastCancel' # NoCancel) =>
             LET id == lastCancel'.id IN
             IF id \in DOMAIN handles
             THEN /\ lastCancel'.ok
                  /\ handles' = MapRemove(handles, id)
                  /\ tasks'[handles[id]].aborted
                  /\ tasks[handles[id]].state = "running"
                        => tasks'[handles[id]].state = "cancelled"
             ELSE /\ ~lastCancel'.ok
                  /\ lastCancel'.err = "No running query found"
                  /\ handles' = handles
                  /\ tasks' = tasks
       /\ \A id \in ConnectionIds :
             (id \notin DOMAIN handles /\ id \in DOMAIN handles')
                => \E p \in Procs : /\ pc[p] = "e_register"
                                    /\ pc'[p] = "e_registered"
                                    /\ loc[p].conn = id
      ]_vars

C5_Witness ==
    /\ lastCancel.err = "No running query found"
    /\ \E t \in 1..Len(tasks) : tasks[t].aborted /\ tasks[t].conn = lastCancel.id

\* C6: a registration replaces the handle stored under the id; cancel_query
\* aborts the task stored under the id (the one registered last) and no
\* other task; a registered task that is no longer stored is not aborted and
\* never gets back into the registry.
C6_RegisterReplaces ==
    [][/\ \A p \in Procs :
             pc[p] = "e_registered" => MapGet(handles, loc[p].conn) = TaskOf(p)
       /\ (lastCancel' # NoCancel) =>
             \A t \in 1..Len(tasks) :
                 t # MapGet(handles, lastCancel'.id) => tasks'[t] = tasks[t]
       /\ \A t \in 1..Len(tasks) :
             (Registered(t) /\ ~InHandles(t))
                => /\ MapGet(handles', tasks[t].conn) # t
                   /\ tasks'[t].aborted = tasks[t].aborted
      ]_vars

C6_Witness ==
    \E t1, t2 \in 1..Len(tasks) :
        /\ t1 # t2 /\ tasks[t1].conn = tasks[t2].conn
        /\ pc[tasks[t1].owner] = "e_await" /\ pc[tasks[t2].owner] = "e_await"
        /\ tasks[t1].state = "running" /\ ~tasks[t1].aborted
        /\ tasks[t2].state = "cancelled"
        /\ lastCancel.ok /\ lastCancel.id = tasks[t2].conn

\* C7 as claimed: whenever cancel_query returned Ok for a task's handle, the
\* execute_query invocation of that task returns "Query cancelled".
C7_CancelOkGivesCancelled ==
    \A t \in 1..Len(tasks) :
        (tasks[t].aborted /\ Returned(tasks[t].owner))
           => ret[tasks[t].owner] = Some(Err("Query cancelled"))

\* C7 as amended: if the task was still running when cancel_query aborted
\* it, its execute_query returns "Query cancelled" whatever number of rows
\* it had fetched; if the task had already finished, its execute_query
\* returns the task's own output.
C7_AbortedTaskResult ==
    \A t \in 1..Len(tasks) :
        (tasks[t].aborted /\ Returned(tasks[t].owner))
           => ret[tasks[t].owner] =
                 IF tasks[t].state = "cancelled"
                 THEN Some(Err("Query cancelled"))
                 ELSE Some(tasks[t].out)

C7_Witness ==
    \E t \in 1..Len(tasks) :
        /\ tasks[t].state = "cancelled" /\ tasks[t].rows > 0
        /\ Returned(tasks[t].owner)

\* C8: a lock is held only between a map operation and the end of its
\* block: never while SshTunnel::new runs and never while the task is
\* awaited.
C8_NoLockAcrossBlocking ==
    \A p \in Procs :
        /\ tunnelsLock = p => pc[p] \in {"r_looked", "r_inserted"}
        /\ handlesLock = p => pc[p] \in {"e_registered", "e_cleaned"}
        /\ pc[p] \in {"r_new", "e_await"} => (tunnelsLock # p /\ handlesLock # p)

C8_Witness ==
    \E p \in Procs :
        /\ pc[p] = "e_await" /\ "new" \in loc[p].effects
        /\ tasks[TaskOf(p)].state = "running"

\* the port a dialect listens on by convention (build_connection_url)
ConventionalPort(driver) ==
    IF driver = "postgres" THEN DEFAULT_POSTGRES_PORT ELSE DEFAULT_MYSQL_PORT

\* C11: with SSH enabled, an absent database port is replaced by the
\* conventional port of the parameters' dialect (3306 mysql, 5432 postgres)
\* and an absent ssh_port by 22, both in the tunnel key and in the arguments
\* of SshTunnel::new.
C11_DialectDefaultPort ==
    \A p \in Procs :
        loc[p].args # None =>
            LET a == loc[p].args[1]
                in == loc[p].input
                remote_port == UnwrapOr(in.port, ConventionalPort(in.driver))
                ssh_port == UnwrapOr(in.ssh_port, 22)
            IN /\ a.remote_port = remote_port
               /\ a.ssh_port = ssh_port
               /\ loc[p].map_key = build_tunnel_key(a.ssh_user, a.ssh_host, ssh_port,
                                                    a.remote_host, remote_port)

\* C12: every successful resolve_connection_params call with SSH enabled
\* returns parameters whose host is "127.0.0.1" and whose port is the local
\* port of the tunnel stored in the registry under the call's key; every
\* other field equals the input, and the original host and port are not in
\* the returned parameters.
C12_RewriteToStoredTunnel ==
    \A p \in Procs :
        (Returned(p) /\ ret[p][1].ok /\ SshEnabled(loc[p].input)) =>
            LET in == loc[p].input
                out == ret[p][1].params[1]
            IN /\ out.host = Some("127.0.0.1")
               /\ loc[p].map_key \in DOMAIN tunnels
               /\ out.port = Some(tunnelObjs[tunnels[loc[p].map_key]].local_port)
               /\ \A f \in DOMAIN in \ {"host", "port"} : out[f] = in[f]
               /\ out.host # in.host /\ out.port # in.port

\* the keys of the argument tuples that differ from args in field i only
KeysOfVariants(args, i, values) ==
    {build_tunnel_key(v[1], v[2], v[3], v[4], v[5]) :
        v \in {[args EXCEPT ![i] = x] : x \in values \ {args[i]}}}

\* C13: build_tunnel_key returns "user@host:port:remote_host->remote_port"
\* (the strings its tests expect), and arguments that differ from the call's
\* in exactly one of the five fields give a different key.
C13_TunnelKeyFormat ==
    (helper.fn = "build_tunnel_key" /\ helper.out # None) =>
        LET a == helper.args
            key == helper.out[1]
        IN /\ a = <<"user", "host.example.com", 22, "db.internal", 3306>>
                 => key = "user@host.example.com:22:db.internal->3306"
           /\ a = <<"admin", "jump.server", 2222, "localhost", 5432>>
                 => key = "admin@jump.server:2222:localhost->5432"
           /\ a = <<"", "host", 22, "remote", 80>>
                 => key = "@host:22:remote->80"
           /\ key \notin KeysOfVariants(a, 1, KeyUsers)
           /\ key \notin KeysOfVariants(a, 2, KeyHosts)
           /\ key \notin KeysOfVariants(a, 3, KeySshPorts)
           /\ key \notin KeysOfVariants(a, 4, KeyRemoteHosts)
           /\ key \notin KeysOfVariants(a, 5, KeyRemotePorts)

C13_Witness ==
    /\ helper.args = <<"admin", "jump.server", 2222, "localhost", 5432>>
    /\ helper.out = Some("admin@jump.server:2222:localhost->5432")

\* the password is absent or has no byte other than whitespace
NoPassword(pw) ==
    pw = None \/ \A i \in 1..Len(pw[1]) : Byte(pw[1], i) \in Whitespace

\* C14: should_use_system_ssh is true exactly for an absent or
\* whitespace-only password (the cases of its tests included), and
\* SshTunnel::new runs the external-process backend exactly then and the
\* native backend otherwise, whatever the other arguments are.
C14_BackendByPassword ==
    /\ should_use_system_ssh(None)
    /\ should_use_system_ssh(Some(""))
    /\ should_use_system_ssh(Some("   "))
    /\ ~should_use_system_ssh(Some("secret"))
    /\ ~should_use_system_ssh(Some("my password"))
    /\ \A p \in Procs :
          "new" \in loc[p].effects =>
              LET pw == loc[p].args[1].ssh_password IN
              /\ should_use_system_ssh(pw) = NoPassword(pw)
              /\ loc[p].tunnel # 0 =>
                    tunnelObjs[loc[p].tunnel].backend =
                        IF NoPassword(pw) THEN "SystemSsh" ELSE "Russh"
              /\ (Returned(p) /\ ret[p][1].err \in SystemSshErrors) => NoPassword(pw)
              /\ (Returned(p) /\ ret[p][1].err \in RusshErrors) => ~NoPassword(pw)

C14_Witness ==
    \E p, q \in Procs :
        /\ loc[p].tunnel # 0 /\ loc[p].args[1].ssh_password = Some(Blank)
        /\ tunnelObjs[loc[p].tunnel].backend = "SystemSsh"
        /\ loc[q].tunnel # 0 /\ loc[q].args[1].ssh_password = Some(Secret)
        /\ tunnelObjs[loc[q].tunnel].backend = "Russh"

\* the statement has been counted: the call went down the paginated path
Counted == drv.count_q # None

\* C15: in the paginated path of every dialect the result carries
\* pagination (page, limit, total_rows) and truncated = (total_rows > limit),
\* total_rows being the engine's answer to COUNT(*) over the original
\* statement wrapped as a subquery.
C15_TruncatedByTotal ==
    (drv.pc = "d_done" /\ drv.ret[1].ok /\ Counted) =>
        LET res == drv.ret[1].res[1]
            l == drv.limit[1]
        IN /\ SubSeq(drv.count_q[1], 1, 22) = "SELECT COUNT(*) FROM ("
           /\ SubSeq(drv.count_q[1], 23, 23 + Len(drv.query)) = drv.query \o ")"
           /\ res.pagination = Some(Pagination(drv.page, l, drv.total_rows))
           /\ res.truncated = (drv.total_rows > l)

\* the offset expression has been evaluated
OffsetEvaluated == Counted \/ (drv.pc = "d_panicked" /\ drv.count_q = None)

\* C16: for every page and limit, the offset (page - 1) * limit is computed
\* without underflow or overflow, so the call does not panic there.
C16_OffsetNeverOverflows ==
    OffsetEvaluated =>
        /\ drv.pc # "d_panicked" \/ drv.count_q # None
        /\ ~calculate_offset(drv.page, drv.limit[1], drv.overflow_checks).wrapped

\* s is word written in any mix of upper and lower case
MatchesIgnoreCase(s, upper, lower) ==
    /\ Len(s) = Len(upper)
    /\ \A i \in 1..Len(s) : Byte(s, i) \in {Byte(upper, i), Byte(lower, i)}

\* the statement, leading whitespace apart, starts with SELECT in any case
LeadingSelect(query) ==
    \E k \in 0..Len(query) :
        /\ \A j \in 1..k : Byte(query, j) \in Whitespace
        /\ MatchesIgnoreCase(SubSeq(query, k + 1, k + 6), "SELECT", "select")

\* C17: a driver rewrites the statement for pagination exactly when the
\* statement starts with SELECT (leading whitespace and case apart) and a
\* limit is given; otherwise no COUNT(*) is sent, the statement handed to the
\* engine is the input statement and the result has no pagination.
C17_RewriteOnlySelectWithLimit ==
    /\ (Counted \/ drv.pc = "d_panicked") =>
           (LeadingSelect(drv.query) /\ drv.limit # None)
    /\ drv.final_query # None =>
           IF LeadingSelect(drv.query) /\ drv.limit # None
           THEN /\ Counted
                /\ drv.final_query # Some(drv.query)
                /\ drv.pagination # None
           ELSE /\ ~Counted
                /\ drv.final_query = Some(drv.query)
                /\ drv.pagination = None
    /\ (drv.pc = "d_done" /\ drv.ret[1].ok) =>
           (drv.ret[1].res[1].pagination # None
               <=> (LeadingSelect(drv.query) /\ drv.limit # None))

C17_Witness ==
    /\ drv.pc = "d_done" /\ drv.ret[1].ok
    /\ drv.query = "  select * from users order by id"
    /\ drv.limit = Some(2)
    /\ drv.ret[1].res[1].pagination = Some(Pagination(2, 2, 3))
    /\ drv.final_query # Some(drv.query)

\* the byte offsets (from 0) at which ORDER BY, in any case, occurs in query
OrderByOffsets(query) ==
    {i \in 0..(Len(query) - 8) :
        MatchesIgnoreCase(SubSeq(query, i + 1, i + 8), "ORDER BY", "order by")}

\* the offset of the last occurrence; Len(query) when there is none
LastOrderBy(query) ==
    IF OrderByOffsets(query) = {} THEN Len(query)
    ELSE CHOOSE i \in OrderByOffsets(query) : \A j \in OrderByOffsets(query) : j <= i

\* C18: the statement executed in the paginated path is
\* SELECT * FROM (<statement without its trailing ORDER BY>), the alias the
\* dialect needs, the stripped ORDER BY clause if there is one, then
\* LIMIT <limit> OFFSET <(page - 1) * limit>.
C18_WrappedStatementForm ==
    (Counted /\ drv.final_query # None) =>
        LET q == drv.query
            l == drv.limit[1]
            at == LastOrderBy(q)
            stripped == IF at = Len(q) THEN q ELSE trim(SubSeq(q, 1, at))
            clause == trim(SubSeq(q, at + 1, Len(q)))
        IN /\ ~(drv.page - 1 >= 65536 /\ l >= 65536)
           /\ drv.final_query[1] =
                 "SELECT * FROM (" \o stripped \o ")"
                    \o (IF drv.dialect = "mysql" THEN " as data_wrapper" ELSE "")
                    \o (IF clause # "" THEN " " \o clause ELSE "")
                    \o " LIMIT " \o ToString(l)
                    \o " OFFSET " \o ToString((drv.page - 1) * l)

\* the number of "(" in s that are not closed in s
RECURSIVE UnclosedFrom(_, _)
UnclosedFrom(s, i) ==
    IF i > Len(s) THEN 0
    ELSE UnclosedFrom(s, i + 1)
            + (IF Byte(s, i) = "(" THEN 1 ELSE IF Byte(s, i) = ")" THEN -1 ELSE 0)
Unclosed(s) == UnclosedFrom(s, 1)

\* C19: the clause that extract_order_by returns and remove_order_by strips
\* is an ORDER BY of the outermost query: what remove_order_by leaves has no
\* open parenthesis, so no text of a subquery is split off.
C19_OrderByOfMainQuery ==
    (helper.fn = "order_by" /\ helper.out # None) =>
        LET out == helper.out[1] IN
        (~out.extracted.panic /\ out.extracted.val # "") =>
            /\ ~out.removed.panic
            /\ Unclosed(out.removed.val) = 0
            /\ Unclosed(out.extracted.val) = 0

\* s without its whitespace
RECURSIVE StripWsFrom(_, _)
StripWsFrom(s, i) ==
    IF i > Len(s) THEN ""
    ELSE (IF Byte(s, i) \in Whitespace THEN "" ELSE Byte(s, i))
            \o StripWsFrom(s, i + 1)
StripWs(s) == StripWsFrom(s, 1)

\* C20: for a statement with a single ORDER BY, remove_order_by followed by
\* extract_order_by is the statement up to whitespace; for a statement with
\* no ORDER BY in any case, extract_order_by is empty and remove_order_by
\* returns the statement.
C20_OrderByRoundTrip ==
    (helper.fn = "order_by" /\ helper.out # None) =>
        LET q == helper.args[1]
            out == helper.out[1]
        IN  /\ Cardinality(OrderByOffsets(q)) = 1 =>
                /\ ~out.removed.panic
                /\ ~out.extracted.panic
                /\ StripWs(out.removed.val \o out.extracted.val) = StripWs(q)
            /\ OrderByOffsets(q) = {} =>
                /\ out.extracted = Value("")
                /\ out.removed = Value(q)

\* the call returned a result and did not take the paginated path
ReturnedUnpaginated ==
    /\ drv.pc = "d_done"
    /\ drv.ret # None
    /\ drv.ret[1].ok
    /\ ~Counted

\* the first k rows of the stream, in stream order
FirstRows(k) == [i \in 1..k |-> i]

Min(a, b) == IF a <= b THEN a ELSE b

\* C21: in the non-paginated path, with a row cap l over a stream of n rows
\* the result holds the first min(n, l) rows in stream order and truncated
\* is true exactly when n > l; with no cap the result holds all n rows and
\* truncated is false.
C21_RowCap ==
    ReturnedUnpaginated =>
        LET res == drv.ret[1].res[1]
            n == drv.stream
        IN  /\ res.pagination = None
            /\ drv.limit # None =>
                   /\ res.rows = FirstRows(Min(n, drv.limit[1]))
                   /\ res.truncated = (n > drv.limit[1])
            /\ drv.limit = None =>
                   /\ res.rows = FirstRows(n)
                   /\ ~res.truncated

\* a capped call that stopped early, the cap being at least one row
C21_Witness ==
    /\ ReturnedUnpaginated
    /\ drv.limit # None
    /\ drv.limit[1] >= 1
    /\ drv.stream > drv.limit[1]
    /\ drv.ret[1].res[1].truncated
    /\ Len(drv.ret[1].res[1].rows) = drv.limit[1]

\* an extractor was applied to a cell
Extracted == helper.fn = "extract_value" /\ helper.out # None

\* probe a is attempted before probe b in the sequence tried
TriedBefore(tried, a, b) ==
    \E i, j \in 1..Len(tried) : i < j /\ tried[i] = a /\ tried[j] = b

\* the first succeeding probe of the sequence determines the result
FirstSucceedingDecides(cell, out) ==
    /\ \A i \in 1..(Len(out.tried) - 1) : out.tried[i] \notin cell.decodes
    /\ out.by # "fallback" =>
           /\ out.tried # <<>>
           /\ out.by = out.tried[Len(out.tried)]
           /\ out.by \in cell.decodes
           /\ out.json = JsonOf(out.by, cell)
    /\ out.by = "fallback" =>
           /\ out.json = "null"
           /\ \A i \in 1..Len(out.tried) : out.tried[i] \notin cell.decodes

C23_NullBeforeProbes ==
    (Extracted /\ helper.args[2].raw = "null") =>
        /\ helper.out[1].json = "null"
        /\ helper.out[1].tried = <<>>

\* a NULL cell for which some typed probe would have succeeded
C23_Witness ==
    /\ Extracted
    /\ helper.args[2].raw = "null"
    /\ helper.args[2].decodes # {}
    /\ helper.out[1].by = "null"

\* new_system_ssh has returned (the subprocess had been launched)
SystemSshReturned ==
    /\ should_use_system_ssh(tun.ssh_password)
    /\ tun.pc = "returned"
    /\ tun.child # "none"

\* the error for an exited subprocess with its status and a captured text
IsExitedError(res) ==
    /\ ~res.ok
    /\ \E k \in 0..Len(tun.stderr_log) :
          res.err = ExitedMsg(tun.status, SubSeq(tun.stderr_log, 1, k), <<>>)

\* C24: new_system_ssh returns Ok only after a TCP connect succeeded in an
\* iteration in which the subprocess had not been observed as exited; when
\* the subprocess is observed exited it returns an error with the exit
\* status and the captured output; otherwise it returns only once the
\* timeout has elapsed, having killed the subprocess, with the timeout error.
C24_SystemSshOutcome ==
    SystemSshReturned =>
        LET res == tun.ret[1] IN
        /\ res.ok => (tun.connected /\ ~tun.observed)
        /\ tun.observed => IsExitedError(res)
        /\ (~res.ok /\ ~tun.observed) =>
               /\ res.err = SystemSshTimeoutMsg
               /\ tun.elapsed >= SSH_TUNNEL_TIMEOUT_SECS
               /\ tun.kills = 1
               /\ tun.child # "running"
               /\ ~tun.connected

\* the subprocess exited with its message captured and the call reported it
C24_Witness ==
    /\ SystemSshReturned
    /\ tun.observed
    /\ tun.status = 255
    /\ tun.ret[1].err = ExitedMsg(255, ChildStderr, <<>>)

\* C25: SshTunnel::new always returns to its caller, with either backend,
\* whatever the subprocess, the network and the SSH server do: a connect or
\* an authentication that never completes does not keep the caller waiting.
C25_NewReturns == <>(tun.pc = "returned")

\* new_russh returned its timeout error while the connect was still pending
C25_Witness ==
    /\ tun.pc = "returned"
    /\ tun.th = "t_connect"
    /\ tun.ret[1] = TunErr(RusshTimeoutMsg)

\* what stop() acts on: the liveness flag and the subprocess
TunnelLiveness(t) == <<t.running, t.child>>

\* C26: stop() is idempotent on either backend and on any clone: once it has
\* been called the native tunnel's liveness flag is false and the external
\* tunnel's subprocess is not running, and a further call changes neither.
C26_StopIdempotent ==
    /\ [](tun.stops # <<>> =>
            IF should_use_system_ssh(tun.ssh_password)
            THEN tun.child \in {"killed", "exited"}
            ELSE ~tun.running)
    /\ [][(tun.stops # <<>> /\ Len(tun'.stops) = Len(tun.stops) + 1) =>
              TunnelLiveness(tun') = TunnelLiveness(tun)]_vars

\* stop() was called on both clones of a native tunnel
C26_Witness ==
    /\ ~should_use_system_ssh(tun.ssh_password)
    /\ tun.stops = <<1, 2>>
    /\ ~tun.running

\* stop() has been called on a native-backend tunnel
NativeStopped == ~should_use_system_ssh(tun.ssh_password) /\ tun.stops # <<>>
InAcceptLoop(t) == t.th \in {"t_loop", "t_accept"}
RelaysTerminated ==
    \A i \in 1..Len(tun.relays) : tun.relays[i] \in {"done", "failed", "cancelled"}

\* C27: after stop() on a native-backend tunnel the accept loop eventually
\* exits, no local connection is accepted once it has, and every relay task
\* eventually terminates; while the liveness flag is set, no step of the
\* loop (an accept error or an accept timeout included) makes it exit.
C27_AcceptLoopStops ==
    /\ NativeStopped ~> (tun.th = "t_exited")
    /\ [][tun.th = "t_exited" => tun'.accepted = tun.accepted]_vars
    /\ NativeStopped ~> (tun.th = "t_exited" /\ RelaysTerminated)
    /\ [][(InAcceptLoop(tun) /\ tun.running /\ tun'.running) => InAcceptLoop(tun')]_vars

\* the loop has exited after stop() and a relay task was still copying
C27_Witness ==
    /\ NativeStopped
    /\ tun.th = "t_exited"
    /\ tun.accepted = 1
    /\ tun.relays = <<"cancelled">>

\* C28: every tunnel stored in the tunnel registry is live (its subprocess
\* or its accept loop is running), so that a cache hit of
\* resolve_connection_params returns a port that is being forwarded.
C28_StoredTunnelsLive ==
    /\ \A k \in DOMAIN tunnels : tunnelObjs[tunnels[k]].live
    /\ \A p \in Procs :
          (pc[p] = "r_looked" /\ loc[p].hit) =>
              \E i \in LiveTunnels : tunnelObjs[i].local_port = loc[p].local_port

UnsupportedReturned(p) ==
    /\ pc[p] = "done"
    /\ ret[p] # None
    /\ loc[p].cmd = "execute_query"
    /\ loc[p].driver # ""
    /\ loc[p].driver \notin SupportedDrivers
\* build_connection_url has returned for such a tag
UnsupportedUrlReturned ==
    /\ helper.fn = "build_connection_url"
    /\ helper.out # None
    /\ helper.args[1].driver \notin SupportedDrivers

\* C30: for a driver tag other than mysql, postgres and sqlite,
\* execute_query and build_connection_url both return the error
\* "Unsupported driver".
C30_UnsupportedDriver ==
    /\ \A p \in Procs :
          UnsupportedReturned(p) => ret[p][1] = Err("Unsupported driver")
    /\ UnsupportedUrlReturned => helper.out[1] = UrlErr("Unsupported driver")

\* C30 as amended: build_connection_url returns "Unsupported driver"; the
\* task of execute_query ends with it and execute_query returns it when the
\* task was not cancelled, and "Query cancelled" when it was.
C30_UnsupportedDriverUnlessCancelled ==
    /\ UnsupportedUrlReturned => helper.out[1] = UrlErr("Unsupported driver")
    /\ \A t \in 1..Len(tasks) :
          (tasks[t].driver \notin SupportedDrivers /\ tasks[t].state = "finished")
              => tasks[t].out = Err("Unsupported driver")
    /\ \A p \in Procs :
          (UnsupportedReturned(p) /\ loc[p].task # 0) =>
              ret[p][1] = IF tasks[loc[p].task].state = "cancelled"
                          THEN Err("Query cancelled")
                          ELSE Err("Unsupported driver")

\* both have returned "Unsupported driver", execute_query for the saved
\* mongodb connection and build_connection_url for a tag that differs from
\* a dialect by its case only
C30_Witness ==
    /\ \E p \in Procs :
          UnsupportedReturned(p) /\ ret[p][1] = Err("Unsupported driver")
    /\ UnsupportedUrlReturned
    /\ helper.args[1].driver = "MySQL"
    /\ helper.out[1] = UrlErr("Unsupported driver")

\* execute_query has returned "Query cancelled"
ReturnedCancelled(p) ==
    /\ pc[p] = "done"
    /\ loc[p].cmd = "execute_query"
    /\ ret[p] = Some(Err("Query cancelled"))

\* C31: execute_query returns "Query cancelled" only when its task was
\* aborted through cancel_query; a failure of the task itself is reported
\* as another error.
C31_CancelledOnlyByCancel ==
    \A p \in Procs :
        ReturnedCancelled(p) =>
            /\ loc[p].task # 0
            /\ tasks[loc[p].task].aborted
            /\ tasks[loc[p].task].state = "cancelled"

\* command p has found its saved connection and entered
\* resolve_connection_params
EnteredResolve(p) ==
    /\ pc[p] # "idle"
    /\ loc[p].cmd \in PathCommands \cup {"execute_query"}
    /\ loc[p].conn \in DOMAIN SavedConnections
    /\ expand_ssh_connection_params(SavedConnections[loc[p].conn]).ok

\* C32: on the export, dump, import and MCP paths the referenced SSH
\* profile is merged before tunnel resolution exactly as on the
\* execute_query path: what resolve_connection_params receives is the saved
\* params with the profile merged, and a connection that resolves for
\* execute_query does not fail for the others for want of an SSH host.
C32_ProfileMergedOnEveryPath ==
    \A p \in Procs :
        EnteredResolve(p) =>
            LET expanded == expand_ssh_connection_params(SavedConnections[loc[p].conn])
            IN /\ loc[p].input = expanded.params[1]
               /\ (pc[p] = "done" /\ expanded.params[1].ssh_host # None)
                      => ret[p] # Some(Err("Missing SSH Host"))

\* the relay tasks in state st
RelaysIn(st) == {i \in 1..Len(tun.relays) : tun.relays[i] = st}

\* C33: the lock on the shared session handle is held by a relay task only
\* during its channel-open call: a relay that is copying does not hold it,
\* so while no channel is being opened the lock is free for the next
\* accepted connection.
C33_LockOnlyWhileOpening ==
    /\ tun.handle_lock # 0 => tun.handle_lock \in RelaysIn("opening")
    /\ RelaysIn("copy") # {} /\ RelaysIn("opening") = {} => tun.handle_lock = 0
    /\ \A i \in RelaysIn("copy"), j \in RelaysIn("open") :
          RelaysIn("opening") = {} => ENABLED RelayLock(j)

\* one relay is copying while another has taken the lock and is opening
\* its channel
C33_Witness ==
    /\ RelaysIn("copy") # {}
    /\ RelaysIn("opening") # {}
    /\ tun.handle_lock \in RelaysIn("opening")

\* SshTunnel::new has chosen its port and the backend does not listen yet
PortChosenNotBound ==
    /\ tun.pc \notin {"n_none", "n_start"}
    /\ ~tun.listening
    /\ tun.ret # Some(TunErr("Failed to find free local port"))

\* C34: from the moment SshTunnel::new has chosen the local port until the
\* backend listens on it no other party can bind the port, so the backend's
\* bind of the port does not fail because the port was taken in between.
C34_PortReserved ==
    /\ PortChosenNotBound => ~tun.taken
    /\ tun.ret # Some(TunErr("Failed to bind local port"))

\* the priority the credentials are taken in: the request, the keychain of
\* a saved entry that uses it, the saved entry
ByPriority(request, entry, kc) ==
    IF request # None THEN request
    ELSE IF entry = None THEN None
    ELSE IF entry[1].save_in_keychain = Some(TRUE) /\ kc.ok /\ trim(kc.val) # ""
    THEN Some(kc.val)
    ELSE IF entry[1].credential # None /\ trim(entry[1].credential[1]) # ""
    THEN entry[1].credential
    ELSE None

\* a call of one of the two resolvers has returned
PasswordResolved ==
    helper.fn = "resolve_test_connection_password" /\ helper.out # None
SshCredentialResolved ==
    helper.fn = "resolve_ssh_test_credential" /\ helper.out # None

\* C35: both resolvers return the request's credential when present (blank
\* or not), otherwise the non-blank keychain value of a saved entry with
\* save_in_keychain, otherwise the non-blank saved credential, otherwise
\* None; no lookup is invoked when the request carries a credential or, for
\* SSH, when no connection id is given.
C35_CredentialPriority ==
    /\ PasswordResolved =>
          LET a == helper.args
              entry == IF a[2] = None THEN None
                       ELSE Some([save_in_keychain |-> a[2][1].save_in_keychain,
                                  credential |-> a[2][1].password])
          IN /\ helper.out[1].val = ByPriority(a[1].password, entry, a[3])
             /\ a[1].password # None => helper.out[1].invoked = {}
    /\ SshCredentialResolved =>
          LET a == helper.args
              entry == IF a[2] = None THEN None ELSE a[3][a[2][1]]
          IN /\ helper.out[1].val = ByPriority(a[1], entry, a[4])
             /\ (a[1] # None \/ a[2] = None) => helper.out[1].invoked = {}

\* a blank request credential was returned for SSH without any lookup,
\* although the keychain held a value for the saved profile
C35_Witness ==
    /\ SshCredentialResolved
    /\ helper.args[1] = Some("  ")
    /\ helper.args[2] = Some("s1")
    /\ helper.args[3]["s1"][1].save_in_keychain = Some(TRUE)
    /\ helper.args[4] = [ok |-> TRUE, val |-> "kc"]
    /\ helper.out[1] = Resolved(Some("  "), {})

\* an execute_query invocation for id has started and not yet returned
InFlight(id) ==
    \E p \in Procs :
        /\ loc[p].cmd = "execute_query"
        /\ loc[p].conn = id
        /\ pc[p] \notin {"idle", "done"}

\* C36: whenever no execute_query invocation is in flight for an id the
\* cancellation registry holds no entry for that id.
C36_NoStaleHandle ==
    \A id \in DOMAIN handles : InFlight(id)

\* two invocations for one id have both returned, one of them cancelled
\* and one with a task that panicked, and the registry is empty
C36_Witness ==
    /\ handles = EmptyMap
    /\ \A p \in Procs : pc[p] = "done" /\ loc[p].conn = "c2" /\ loc[p].task # 0
    /\ \E t \in 1..Len(tasks) : tasks[t].state = "cancelled"
    /\ \E t \in 1..Len(tasks) : tasks[t].state = "panicked"

\* the tasks spawned by execute_query under id that are still running
RunningUnder(id) ==
    {t \in 1..Len(tasks) : tasks[t].conn = id /\ tasks[t].state = "running"}

\* C37: when cancel_query(id) returns "No running query found" no query
\* task started under that id is running.
C37_NotFoundMeansNotRunning ==
    lastCancel.err = "No running query found" => RunningUnder(lastCancel.id) = {}

\* SshTunnel::new has returned an error
NewFailed == tun.pc = "returned" /\ ~tun.ret[1].ok

\* C38: whenever SshTunnel::new returns an error nothing started for the
\* attempt is left running: the ssh subprocess has exited or been killed,
\* and the thread of the native backend is not in the forwarding accept
\* loop on the local port.
C38_ErrorLeavesNothingRunning ==
    NewFailed =>
        /\ tun.child # "running"
        /\ tun.th \notin {"t_loop", "t_accept"}
        /\ ~tun.listening \/ tun.th \notin {"t_listener", "t_loop", "t_accept"}

\* the tunnel key of params: ssh user, ssh host, ssh port, remote host and
\* remote port, with the defaults of resolve_connection_params
TunnelKeyOf(params) ==
    build_tunnel_key(params.ssh_user[1], params.ssh_host[1],
                     UnwrapOr(params.ssh_port, DEFAULT_RESOLVE_SSH_PORT),
                     UnwrapOr(params.host, "localhost"),
                     UnwrapOr(params.port, DEFAULT_MYSQL_PORT))

\* the host and port of a result of resolve_connection_params
Endpoint(res) == <<res.ok, res.params[1].host, res.params[1].port>>

\* what resolve_connection_params would return for params in the current
\* state of the registry if its lookup hit
HitOutcome(params) ==
    LET pr == ResolvePrologue(params)
    IN Ok(Some(RewriteParams(params, tunnelObjs[tunnels[pr.map_key]].local_port)), 0)

\* C39: on a cache hit the outcome of resolve_connection_params depends on
\* the tunnel key only: the lookup hits exactly when the registry holds the
\* key, every call whose parameters have that key (whatever its
\* ssh_password, ssh_key_file and ssh_key_passphrase) gets the same host and
\* port, and a call that hit returns them without SshTunnel::new having
\* looked at its credentials.
C39_HitDependsOnKeyOnly ==
    /\ \A p \in Procs :
          pc[p] = "r_looked" =>
             /\ loc[p].hit <=> TunnelKeyOf(loc[p].input) \in DOMAIN tunnels
             /\ loc[p].hit =>
                   \A other \in CacheHitInputs :
                      TunnelKeyOf(other) = TunnelKeyOf(loc[p].input) =>
                         /\ ResolvePrologue(other).map_key \in DOMAIN tunnels
                         /\ Endpoint(HitOutcome(other)) =
                               <<TRUE, Some("127.0.0.1"), Some(loc[p].local_port)>>
    /\ \A p \in Procs :
          pc[p] = "done" /\ loc[p].hit =>
             /\ ret[p] # None
             /\ Endpoint(ret[p][1]) =
                   <<TRUE, Some("127.0.0.1"), Some(loc[p].local_port)>>
             /\ "new" \notin loc[p].effects

\* C39 witness: two calls have hit the tunnel a third one created; the
\* three differ in their credentials and got the same host and port
C39_Witness ==
    \E p, q, r \in Procs :
       /\ p # q
       /\ pc[p] = "done" /\ pc[q] = "done" /\ pc[r] = "done"
       /\ ~loc[r].hit /\ "insert" \in loc[r].effects
       /\ loc[p].hit /\ loc[q].hit
       /\ loc[p].input.ssh_password # loc[r].input.ssh_password
       /\ loc[p].input.ssh_key_file # loc[r].input.ssh_key_file
       /\ loc[q].input.ssh_key_passphrase # loc[r].input.ssh_key_passphrase
       /\ Endpoint(ret[p][1]) = Endpoint(ret[r][1])
       /\ Endpoint(ret[q][1]) = Endpoint(ret[r][1])

\* new_russh has been entered for the call
RusshStarted == tun.pc \in {"r_bind", "r_wait"} \/ tun.th # NoTun.th

NoCredentialsMsg == "No SSH credentials provided for russh"

\* C40: SshTunnel::new starts the native backend only with a non-blank
\* password or a non-blank key file at hand, and no call ever produces the
\* error "No SSH credentials provided for russh", on the ready channel or as
\* its result.
C40_RusshHasCredentials ==
    /\ RusshStarted =>
          \/ ~is_empty_or_whitespace(tun.ssh_password)
          \/ ~is_empty_or_whitespace(tun.ssh_key_file)
    /\ tun.th # "t_no_credentials"
    /\ \A i \in 1..Len(tun.chan) : tun.chan[i] # TunErr(NoCredentialsMsg)
    /\ tun.pc = "returned" => tun.ret[1] # TunErr(NoCredentialsMsg)

\* C40 witness: the native backend authenticates with the password, the key
\* file being blank, so that the branch before the error was the one taken
C40_Witness ==
    /\ RusshStarted
    /\ tun.th = "t_auth"
    /\ is_empty_or_whitespace(tun.ssh_key_file)
    /\ tun.ssh_key_file # None
    /\ ~is_empty_or_whitespace(tun.ssh_password)

====
